---- MODULE Spec2Model ----
(***************************************************************************)
(* The SPEAR host-agent runtime (sdk/python/spear/client.py, class         *)
(* HostAgent) as a state machine: the dispatcher (_main_loop), the worker  *)
(* threads it spawns, the sender and receiver threads, the drainer spawned *)
(* by stop(), threads calling exec_request, and threads sending stream     *)
(* events.  Every thread step between two points where another thread can  *)
(* observe shared state is one action.                                     *)
(*                                                                         *)
(* Environment assumptions: sendall always succeeds; the host gives its    *)
(* requests distinct non-negative ids; fewer envelopes wait for the        *)
(* dispatcher at any time than _recv_queue holds (512), so the receiver    *)
(* never blocks in its put.  The host answers a request the agent wrote at *)
(* most once; where a specification says so it also sends responses that   *)
(* answer no request, or closes the connection.                            *)
(***************************************************************************)
EXTENDS Integers, Sequences, FiniteSets, TLC

\* ---------------------------------------------------------------- bounds
\* The inflight cap; 128 in the source, scaled down so that the cap is reached.
MAX_INFLIGHT_REQUESTS == 1
\* Capacity of _send_queue; 512 in the source, scaled down.
SEND_QUEUE_SIZE == 3
\* Number of envelopes the host sends on its own initiative.
MaxInbound == 3
\* Number of stream events the application sends.
MaxEvents == 3
\* The number of requests the host sends in the runs checked for termination.
MaxStopInbound == 2
\* The number of StreamData signal handlers registered.
MaxSigHandlers == 2
\* The number of StreamData signals the host sends.
MaxSignals == 2
\* The number of calls of register_handler, unregister_handler and
\* set_internal_tool the application makes after start-up.
MaxRegistryOps == 3

\* ------------------------------------------------------------- constants
SYS_IO_STREAM_ID == 0
CODE_OK == 0
CODE_TOO_MANY == 0 - 32000
CODE_NOT_FOUND == 0 - 32601
CODE_INTERNAL == 0 - 32603

RequestIds == 1..MaxInbound
StreamIds == {SYS_IO_STREAM_ID, 5}
NoReq == [kind |-> "unbound", id |-> 0 - 1]
NoFrame == [type |-> "none"]
NoRegistryCall == [op |-> "none", name |-> "", outcome |-> "none"]
NoStreamCall == [pc |-> "idle", op |-> "none", req_id |-> 0 - 1, stream_id |-> 0 - 1,
                 outcome |-> "none", seq_at_end |-> <<>>]

\* ------------------------------------------------------ frames and bytes
\* int.to_bytes(k, byteorder="little")
RECURSIVE ToBytesLE(_, _)
ToBytesLE(n, k) == IF k = 0 THEN <<>> ELSE <<n % 256>> \o ToBytesLE(n \div 256, k - 1)

\* length.to_bytes(8, byteorder="little")
LE8(n) == ToBytesLE(n, 8)

\* int.from_bytes(data, byteorder="little")
RECURSIVE FromBytesLE(_)
FromBytesLE(b) == IF Len(b) = 0 THEN 0 ELSE b[1] + 256 * FromBytesLE(Tail(b))

\* The code field of a TransportResponse, as its two low bytes.
CodeBytes(code) == ToBytesLE(IF code < 0 THEN code + 65536 ELSE code, 2)

DataTypeTag(dt) ==
    CASE dt = "StreamRawData" -> 1
      [] dt = "StreamOperationEvent" -> 2
      [] dt = "StreamNotificationEvent" -> 3

\* builder.Output(): the bytes of one envelope.  The flatbuffers layout is
\* abstracted to a tag followed by the fields the runtime sets.
Output(f) ==
    CASE f.type = "Response" -> <<2, f.id>> \o CodeBytes(f.code)
      [] f.type = "Request" -> <<1, f.id, 7>>
      [] f.type = "Signal" ->
            <<3, f.stream_id, f.sequence_id, DataTypeTag(f.dtype), IF f.final THEN 1 ELSE 0>>

\* The frame reader: 8 bytes of little-endian length, then that many bytes.
RECURSIVE ReadFrames(_)
ReadFrames(b) ==
    IF Len(b) = 0 THEN <<>>
    ELSE IF Len(b) < 8 THEN <<b>>
    ELSE LET length == FromBytesLE(SubSeq(b, 1, 8))
         IN IF Len(b) < 8 + length THEN <<b>>
            ELSE <<SubSeq(b, 9, 8 + length)>> \o ReadFrames(SubSeq(b, 9 + length, Len(b)))

\* ----------------------------------------------------------------- state
VARIABLES
    handlers,                 \* _handlers: method name -> Handler (function and flags)
    internal_tools,           \* _internal_tools: tool id -> the function registered
    stream_sequence_ids,      \* _stream_sequence_ids: stream id -> counter
    global_id,                \* _global_id
    pending_requests,         \* _pending_requests: id -> the caller whose cb it holds
    inflight_requests_count,  \* _inflight_requests_count
    recv_queue,               \* _recv_queue
    send_queue,               \* _send_queue
    send_task_pipe,           \* unread bytes in the sender's wake-up pipe
    stop_event,               \* bytes sent on _stop_event_w (never read back)
    sock,                     \* every byte written to the socket by the agent
    main_pc,                  \* the dispatcher: "loop", "returned", "raised"
    req,                      \* the local variable req of _main_loop
    workers,                  \* handle_worker threads, by request id
    tool_workers,             \* internal_tool_handler threads, by request id
    callers,                  \* threads inside exec_request
    streamers,                \* threads inside send_*_event
    stop_pc,                  \* stop_worker threads
    send_pc,                  \* _send_thread
    recv_pc,                  \* _recv_thread
    exited,                   \* os._exit(0) was called
    host,                     \* the peer: ids it handed out, frames it answered, the connection
    app,                      \* what the application has done so far
    enqueued,                 \* history: every frame passed to _put_raw_object
    written,                  \* history: every frame the sender wrote
    handled,                  \* history: every envelope the dispatcher took
    cb_log,                   \* history: every completion callback invocation
    at_stop,                  \* history: Len(enqueued), Len(written) when the stop-event first fired
    sig_handlers,             \* _sig_handlers[Signal.StreamData]: the handlers, in registration order
    stream_calls,             \* threads inside create_stream / close_stream
    delivered                 \* history: every invocation of a StreamData handler

vars == <<handlers, internal_tools, stream_sequence_ids, global_id, pending_requests,
          inflight_requests_count, recv_queue, send_queue, send_task_pipe, stop_event,
          sock, main_pc, req, workers, tool_workers, callers, streamers, stop_pc,
          send_pc, recv_pc, exited, host, app, enqueued, written, handled, cb_log,
          at_stop, sig_handlers, stream_calls, delivered>>

regVars == <<handlers, internal_tools>>
sigVars == <<sig_handlers, stream_calls, delivered>>
streamVars == <<stream_sequence_ids, streamers>>
reqVars == <<global_id, pending_requests, callers, cb_log>>
inVars == <<recv_queue, recv_pc, host>>
outVars == <<send_queue, send_task_pipe, enqueued>>
senderVars == <<send_pc, sock, written>>
mainVars == <<main_pc, req, handled>>
workVars == <<workers, tool_workers, inflight_requests_count>>
stopVars == <<stop_pc, stop_event, at_stop, exited>>

Callers == {"c1", "c2"}
Streamers == {"t1", "t2"}
StopThreads == {"sig", "user"}

\* HostAgent.__init__, the decorators' registrations, connect_host and run():
\* the I/O threads are started and the dispatcher is in its loop.
Init ==
    /\ handlers = [m \in {"echo", "live", "feed"} |->
                      [handler |-> "f1", in_stream |-> m = "live", out_stream |-> m = "feed"]]
    /\ internal_tools = (42 :> "tool_a")
    /\ stream_sequence_ids = <<>>
    /\ global_id = 0
    /\ pending_requests = <<>>
    /\ inflight_requests_count = 0
    /\ recv_queue = <<>>
    /\ send_queue = <<>>
    /\ send_task_pipe = 0
    /\ stop_event = 0
    /\ sock = <<>>
    /\ main_pc = "loop"
    /\ req = NoReq
    /\ workers = [r \in RequestIds |-> [pc |-> "none", outcome |-> "none"]]
    /\ tool_workers = [r \in RequestIds |->
                          [pc |-> "none", outcome |-> "none", handler |-> "none"]]
    /\ callers = [c \in Callers |->
                     [pc |-> "idle", new_id |-> 0 - 1, tmp |-> 0 - 1, response |-> <<>>,
                      result |-> ""]]
    /\ streamers = [t \in Streamers |-> [pc |-> "idle", frame |-> NoFrame]]
    /\ stop_pc = [t \in StopThreads |-> "none"]
    /\ send_pc = "select"
    /\ recv_pc = "select"
    /\ exited = FALSE
    /\ host = [next_id |-> 1, sent |-> 0, answered |-> {}, conn |-> "open"]
    /\ app = [events |-> 0, calls |-> 0, regs |-> 0, reg |-> NoRegistryCall]
    /\ enqueued = <<>>
    /\ written = <<>>
    /\ handled = <<>>
    /\ cb_log = <<>>
    /\ at_stop = [enq |-> 0 - 1, wr |-> 0 - 1]
    /\ sig_handlers = <<>>
    /\ stream_calls = [c \in Callers |-> NoStreamCall]
    /\ delivered = <<>>

\* ------------------------------------------------------- outbound frames
\* A TransportResponse built by _put_rpc_response: code is left at its default 0.
\* The field "for" is history: the inbound request whose handling built the frame.
ResponseFrame(req_id, r) ==
    [type |-> "Response", id |-> req_id, code |-> CODE_OK, message |-> "", for |-> r]

\* ErrorFrame without AddMessage: the message field keeps its default.
ErrorFrame_NoMessage(req_id, code, message, r) ==
    [type |-> "Response", id |-> req_id, code |-> code, message |-> "", for |-> r]

\* A TransportResponse built by _put_rpc_error.
ErrorFrame(req_id, code, message, r) ==
    [type |-> "Response", id |-> req_id, code |-> code, message |-> message, for |-> r]

\* A TransportRequest built by _put_rpc_request.
RequestFrame(new_id) == [type |-> "Request", id |-> new_id]

\* A TransportRequest with method StreamCtrl, carrying the StreamControlRequest
\* built by create_stream (op "New") or close_stream (op "Close").
StreamCtrlFrame(new_id, op, request_id, stream_id) ==
    [type |-> "Request", id |-> new_id, method |-> "StreamCtrl",
     ctrl |-> [op |-> op, request_id |-> request_id, stream_id |-> stream_id]]

\* A TransportSignal carrying StreamData, built by send_*_event.
SignalFrame(stream_id, seq_id, dtype, final) ==
    [type |-> "Signal", method |-> "StreamData", stream_id |-> stream_id,
     sequence_id |-> seq_id, dtype |-> dtype, final |-> final]

\* PutRawObject on a queue without a capacity: put never blocks.
PutRawObject_Unbounded(f) ==
    /\ send_queue' = Append(send_queue, f)
    /\ send_task_pipe' = send_task_pipe + 1
    /\ enqueued' = Append(enqueued, f)

\* _put_raw_object: queue.put blocks while the queue is full, then one byte
\* is written to the wake-up pipe.
PutRawObject(f) ==
    /\ Len(send_queue) < SEND_QUEUE_SIZE
    /\ send_queue' = Append(send_queue, f)
    /\ send_task_pipe' = send_task_pipe + 1
    /\ enqueued' = Append(enqueued, f)

PutRpcResponse(req_id, r) == PutRawObject(ResponseFrame(req_id, r))

\* PutRpcError without AddId: the id field keeps its default 0.
PutRpcError_NoId(req_id, code, message, r) == PutRawObject(ErrorFrame(0, code, message, r))

PutRpcError(req_id, code, message, r) == PutRawObject(ErrorFrame(req_id, code, message, r))

\* ---------------------------------------------------------------- sender
\* SendAll with a 4-byte length prefix instead of 8 bytes.
SendAll_ShortLength(data) == sock' = sock \o ToBytesLE(Len(data), 4) \o data

\* sendall(lendata); sendall(data)
SendAll(data) == sock' = sock \o LE8(Len(data)) \o data

\* send_data(): the pipe is readable; read one byte, take one frame, write it.
SenderSendData ==
    /\ ~exited
    /\ send_pc = "select"
    /\ send_task_pipe > 0
    /\ send_queue # <<>>
    /\ send_task_pipe' = send_task_pipe - 1
    /\ send_queue' = Tail(send_queue)
    /\ SendAll(Output(Head(send_queue)))
    /\ written' = Append(written, Head(send_queue))
    /\ UNCHANGED <<send_pc, enqueued>>
    /\ UNCHANGED <<regVars, sigVars, streamVars, reqVars, inVars, mainVars, workVars, stopVars, app>>

\* SenderReadPipe without the os.read: the notification byte stays in the pipe.
SenderReadPipe_NoRead ==
    /\ ~exited
    /\ send_pc = "select"
    /\ send_task_pipe > 0
    /\ send_pc' = "get"
    /\ UNCHANGED <<sock, written>>
    /\ UNCHANGED <<regVars, sigVars, streamVars, reqVars, inVars, outVars, mainVars, workVars,
                   stopVars, app>>

\* send_data(), first statement: os.read(self._send_task_pipe_r, 1).
SenderReadPipe ==
    /\ ~exited
    /\ send_pc = "select"
    /\ send_task_pipe > 0
    /\ send_task_pipe' = send_task_pipe - 1
    /\ send_pc' = "get"
    /\ UNCHANGED <<send_queue, enqueued, sock, written>>
    /\ UNCHANGED <<regVars, sigVars, streamVars, reqVars, inVars, mainVars, workVars, stopVars, app>>

\* send_data(), the rest: self._send_queue.get() blocks while the queue is
\* empty, then the frame is written with its length prefix.
SenderGet ==
    /\ ~exited
    /\ send_pc = "get"
    /\ send_queue # <<>>
    /\ send_queue' = Tail(send_queue)
    /\ SendAll(Output(Head(send_queue)))
    /\ written' = Append(written, Head(send_queue))
    /\ send_pc' = "select"
    /\ UNCHANGED <<send_task_pipe, enqueued>>
    /\ UNCHANGED <<regVars, sigVars, streamVars, reqVars, inVars, mainVars, workVars, stopVars, app>>

\* The selector reports the stop-event: the sender enters send_remaining_data().
SenderStop ==
    /\ ~exited
    /\ send_pc = "select"
    /\ stop_event > 0
    /\ send_pc' = "drain"
    /\ UNCHANGED <<sock, written>>
    /\ UNCHANGED <<regVars, sigVars, streamVars, reqVars, inVars, outVars, mainVars, workVars,
                   stopVars, app>>

\* One iteration of the loop of send_remaining_data().
SenderDrain ==
    /\ ~exited
    /\ send_pc = "drain"
    /\ send_queue # <<>>
    /\ send_queue' = Tail(send_queue)
    /\ SendAll(Output(Head(send_queue)))
    /\ written' = Append(written, Head(send_queue))
    /\ UNCHANGED <<send_pc, send_task_pipe, enqueued>>
    /\ UNCHANGED <<regVars, sigVars, streamVars, reqVars, inVars, mainVars, workVars, stopVars, app>>

\* SenderTerminator without the emptiness test of the drain loop.
SenderTerminator_NoDrain ==
    /\ ~exited
    /\ send_pc = "drain"
    /\ sock' = sock \o LE8(0)
    /\ send_pc' = "exited"
    /\ UNCHANGED written
    /\ UNCHANGED <<regVars, sigVars, streamVars, reqVars, inVars, outVars, mainVars, workVars,
                   stopVars, app>>

\* The queue is empty: write the zero-length frame and return.
SenderTerminator ==
    /\ ~exited
    /\ send_pc = "drain"
    /\ send_queue = <<>>
    /\ sock' = sock \o LE8(0)
    /\ send_pc' = "exited"
    /\ UNCHANGED written
    /\ UNCHANGED <<regVars, sigVars, streamVars, reqVars, inVars, outVars, mainVars, workVars,
                   stopVars, app>>

\* -------------------------------------------------------------- receiver
\* recv_data(): one frame from the host is put on _recv_queue.
RecvData(e) ==
    /\ ~exited
    /\ recv_pc = "select"
    /\ recv_queue' = Append(recv_queue, e)
    /\ UNCHANGED recv_pc

\* The selector reports the stop-event: the receiver returns.
RecvStop ==
    /\ ~exited
    /\ recv_pc = "select"
    /\ stop_event > 0
    /\ recv_pc' = "exited"
    /\ UNCHANGED <<recv_queue, host>>
    /\ UNCHANGED <<regVars, sigVars, streamVars, reqVars, outVars, senderVars, mainVars, workVars,
                   stopVars, app>>

\* recv_data() reads 0 bytes and returns False: the receiver logs
\* "Connection closed" and returns.
RecvClosed ==
    /\ ~exited
    /\ recv_pc = "select"
    /\ host.conn = "closed"
    /\ recv_pc' = "exited"
    /\ host' = [host EXCEPT !.conn = "eof"]
    /\ UNCHANGED recv_queue
    /\ UNCHANGED <<regVars, sigVars, streamVars, reqVars, outVars, senderVars, mainVars, workVars,
                   stopVars, app>>

\* ------------------------------------------------------------------ host
\* The host closes its end of the connection (or the connection breaks).
HostClose ==
    /\ host.conn = "open"
    /\ host' = [host EXCEPT !.conn = "closed"]
    /\ UNCHANGED <<recv_queue, recv_pc>>
    /\ UNCHANGED <<regVars, sigVars, streamVars, reqVars, outVars, senderVars, mainVars, workVars,
                   stopVars, app>>

CustomRequest(method_str, info) ==
    [type |-> "Request", method |-> "Custom", method_str |-> method_str, info |-> info,
     tool_id |-> 0]

ToolInvocationRequest(tool_id) ==
    [type |-> "Request", method |-> "ToolInvoke", method_str |-> "", info |-> "",
     tool_id |-> tool_id]

TerminateSignal == [type |-> "Signal", method |-> "Terminate"]

CustomRequests ==
    {CustomRequest(m, i) : m \in {"echo", "live", "nope"},
                           i \in {"NormalRequestInfo", "StreamRequestInfo"}}

\* The host sends a request; it numbers its requests 1, 2, 3, ...
HostRequest(shapes) ==
    /\ host.sent < MaxInbound
    /\ \E shape \in shapes :
          RecvData([id |-> host.next_id] @@ shape)
    /\ host' = [host EXCEPT !.next_id = @ + 1, !.sent = @ + 1]
    /\ UNCHANGED <<regVars, sigVars, streamVars, reqVars, outVars, senderVars, mainVars, workVars,
                   stopVars, app>>

\* The host sends a Terminate signal.
HostTerminate ==
    /\ host.sent < MaxInbound
    /\ RecvData(TerminateSignal)
    /\ host' = [host EXCEPT !.sent = @ + 1]
    /\ UNCHANGED <<regVars, sigVars, streamVars, reqVars, outVars, senderVars, mainVars, workVars,
                   stopVars, app>>

\* The host sends a signal that is neither Terminate nor StreamData.
HostOtherSignal ==
    /\ host.sent < MaxInbound
    /\ RecvData([type |-> "Signal", method |-> "Other"])
    /\ host' = [host EXCEPT !.sent = @ + 1]
    /\ UNCHANGED <<regVars, sigVars, streamVars, reqVars, outVars, senderVars, mainVars, workVars,
                   stopVars, app>>

\* A TransportResponse as the host builds it: a payload with code 0, or an
\* error code with a message.
InboundResponse(id, code) ==
    [type |-> "Response", id |-> id, code |-> code,
     message |-> IF code = CODE_OK THEN "" ELSE "host error",
     response |-> IF code = CODE_OK THEN "payload" ELSE ""]

\* The host answers a request frame it has read from the socket, once.
HostResponse ==
    /\ \E i \in 1..Len(written) :
          /\ written[i].type = "Request"
          /\ i \notin host.answered
          /\ \E code \in {CODE_OK, CODE_INTERNAL} :
                RecvData(InboundResponse(written[i].id, code))
          /\ host' = [host EXCEPT !.answered = @ \cup {i}]
    /\ UNCHANGED <<regVars, sigVars, streamVars, reqVars, outVars, senderVars, mainVars, workVars,
                   stopVars, app>>

\* The host sends a Response that answers no request frame: an id never
\* used, an id answered before, or the id of a request not yet written.
HostStrayResponse ==
    /\ host.sent < MaxInbound
    /\ \E id \in {0, 7}, code \in {CODE_OK, CODE_INTERNAL} :
          RecvData(InboundResponse(id, code))
    /\ host' = [host EXCEPT !.sent = @ + 1]
    /\ UNCHANGED <<regVars, sigVars, streamVars, reqVars, outVars, senderVars, mainVars, workVars,
                   stopVars, app>>

\* A request id and a stream id no call of the agent has used.
OTHER_REQUEST_ID == 99
OTHER_STREAM_ID == 6

\* A TransportResponse with code 0 whose payload is a StreamControlResponse.
StreamCtrlResponse(id, request_id, stream_id) ==
    [type |-> "Response", id |-> id, code |-> CODE_OK, message |-> "",
     response |-> [request_id |-> request_id, stream_id |-> stream_id]]

\* The host answers a stream-control request it has read, once: it echoes the
\* request id or sends another one; for "New" it hands out stream id 5 or the
\* invalid id 0, for "Close" it names the stream closed or another one.
HostStreamCtrlResponse ==
    /\ \E i \in 1..Len(written) :
          /\ written[i].type = "Request"
          /\ i \notin host.answered
          /\ \E request_id \in {written[i].ctrl.request_id, OTHER_REQUEST_ID},
                stream_id \in (IF written[i].ctrl.op = "New"
                               THEN {0, 5}
                               ELSE {written[i].ctrl.stream_id, OTHER_STREAM_ID}) :
                RecvData(StreamCtrlResponse(written[i].id, request_id, stream_id))
          /\ host' = [host EXCEPT !.answered = @ \cup {i}]
    /\ UNCHANGED <<regVars, sigVars, streamVars, reqVars, outVars, senderVars, mainVars, workVars,
                   stopVars, app>>

\* What the bytes of an event's data yield when they are read as a StreamData
\* table: a stream id, or (0 - 1) when the read raises.
ParsesAs == {0 - 1, 0, 5}

\* An inbound TransportSignal carrying StreamData.
StreamDataSignal(stream_id, dtype, parses_as) ==
    [type |-> "Signal", method |-> "StreamData", stream_id |-> stream_id,
     dtype |-> dtype, parses_as |-> parses_as, sequence_id |-> 0, final |-> FALSE]

\* The host sends a StreamRawData event on stream 5; it may repeat or lower
\* the sequence id and may go on after an event with final = true.
HostStreamEvent ==
    /\ host.sent < MaxInbound
    /\ \E sequence_id \in {0, 1}, final \in BOOLEAN, parses_as \in {0 - 1, 5} :
          RecvData([StreamDataSignal(5, "StreamRawData", parses_as) EXCEPT
                       !.sequence_id = sequence_id, !.final = final])
    /\ host' = [host EXCEPT !.sent = @ + 1]
    /\ UNCHANGED <<regVars, sigVars, streamVars, reqVars, outVars, senderVars, mainVars,
                   workVars, stopVars, app>>

\* The host sends a StreamData signal with an event of one of the types dtypes.
HostStreamData(dtypes) ==
    /\ host.sent < MaxInbound
    /\ \E stream_id \in StreamIds, dtype \in dtypes, parses_as \in ParsesAs :
          RecvData(StreamDataSignal(stream_id, dtype, parses_as))
    /\ host' = [host EXCEPT !.sent = @ + 1]
    /\ UNCHANGED <<regVars, sigVars, streamVars, reqVars, outVars, senderVars, mainVars,
                   workVars, stopVars, app>>

\* -------------------------------------------------------------- registry
\* Remove key k from the dict d.
Del(d, k) == [x \in DOMAIN d \ {k} |-> d[x]]

\* The application starts one more call on the registry.
RegistryCall(op, name, outcome) ==
    /\ ~exited
    /\ app.regs < MaxRegistryOps
    /\ app' = [app EXCEPT !.regs = @ + 1,
                          !.reg = [op |-> op, name |-> name, outcome |-> outcome]]

\* RegisterHandler without the test "method in self._handlers".
RegisterHandler_Overwrites(method, handler, in_stream, out_stream) ==
    /\ RegistryCall("register_handler", method, "returned")
    /\ handlers' = (method :> [handler |-> handler, in_stream |-> in_stream,
                               out_stream |-> out_stream]) @@ handlers
    /\ UNCHANGED internal_tools
    /\ UNCHANGED <<sigVars, streamVars, reqVars, inVars, outVars, senderVars, mainVars,
                   workVars, stopVars>>

\* register_handler(method, handler, in_stream, out_stream) with arguments of
\* the declared types: a name already registered raises ValueError.
RegisterHandler(method, handler, in_stream, out_stream) ==
    /\ IF method \in DOMAIN handlers
       THEN /\ RegistryCall("register_handler", method, "ValueError")
            /\ UNCHANGED handlers
       ELSE /\ RegistryCall("register_handler", method, "returned")
            /\ handlers' = (method :> [handler |-> handler, in_stream |-> in_stream,
                                       out_stream |-> out_stream]) @@ handlers
    /\ UNCHANGED internal_tools
    /\ UNCHANGED <<sigVars, streamVars, reqVars, inVars, outVars, senderVars, mainVars,
                   workVars, stopVars>>

\* unregister_handler(method): del self._handlers[method] raises KeyError for
\* a name that is not a key.
UnregisterHandler(method) ==
    /\ IF method \in DOMAIN handlers
       THEN /\ RegistryCall("unregister_handler", method, "returned")
            /\ handlers' = Del(handlers, method)
       ELSE /\ RegistryCall("unregister_handler", method, "KeyError")
            /\ UNCHANGED handlers
    /\ UNCHANGED internal_tools
    /\ UNCHANGED <<sigVars, streamVars, reqVars, inVars, outVars, senderVars, mainVars,
                   workVars, stopVars>>

\* set_internal_tool(tid, handler): self._internal_tools[tid] = handler
SetInternalTool(tid, handler) ==
    /\ RegistryCall("set_internal_tool", "", "returned")
    /\ internal_tools' = [x \in DOMAIN internal_tools \cup {tid} |->
                             IF x = tid THEN handler ELSE internal_tools[x]]
    /\ UNCHANGED handlers
    /\ UNCHANGED <<sigVars, streamVars, reqVars, inVars, outVars, senderVars, mainVars,
                   workVars, stopVars>>

\* HostAgent() called again: __new__ returns the instance that exists, and
\* Python then runs __init__ on it, which assigns every attribute anew:
\* empty queues, registries and tables, _global_id = 1, a new wake-up pipe
\* and a new stop-event socket pair (both with nothing to read).
Construct ==
    /\ RegistryCall("HostAgent", "", "returned")
    /\ send_queue' = <<>>
    /\ recv_queue' = <<>>
    /\ global_id' = 1
    /\ send_task_pipe' = 0
    /\ handlers' = <<>>
    /\ internal_tools' = <<>>
    /\ stop_event' = 0
    /\ inflight_requests_count' = 0
    /\ pending_requests' = <<>>
    /\ sig_handlers' = <<>>
    /\ stream_sequence_ids' = <<>>
    /\ UNCHANGED <<sock, main_pc, req, workers, tool_workers, callers, streamers, stop_pc,
                   send_pc, recv_pc, exited, host, enqueued, written, handled, cb_log,
                   at_stop, stream_calls, delivered>>

\* ------------------------------------------------------------ dispatcher
\* _main_loop has taken envelope e from _recv_queue (rpc_data = _get_rpc_data()).
Taken(e) ==
    /\ ~exited
    /\ main_pc = "loop"
    /\ e = Head(recv_queue)
    /\ recv_queue' = Tail(recv_queue)
    /\ handled' = Append(handled, e)
    /\ UNCHANGED <<recv_pc, host>>

\* DispatchCustom testing only in_stream before it starts a handler for a
\* NormalRequestInfo.
DispatchCustom_InStreamOnly ==
    /\ recv_queue # <<>>
    /\ LET e == Head(recv_queue) IN
       /\ e.type = "Request"
       /\ e.method = "Custom"
       /\ Taken(e)
       /\ req' = [kind |-> "request", id |-> e.id]
       /\ IF e.method_str \notin DOMAIN handlers
          THEN /\ PutRpcError(e.id, CODE_NOT_FOUND, "Method not found", e.id)
               /\ UNCHANGED workers
          ELSE IF e.info = "NormalRequestInfo"
          THEN IF handlers[e.method_str].in_stream
               THEN /\ PutRpcError(e.id, CODE_NOT_FOUND, "invalid request type", e.id)
                    /\ UNCHANGED workers
               ELSE IF inflight_requests_count > MAX_INFLIGHT_REQUESTS
               THEN /\ PutRpcError(e.id, CODE_TOO_MANY, "Too many requests", e.id)
                    /\ UNCHANGED workers
               ELSE /\ workers' = [workers EXCEPT ![e.id].pc = "spawned"]
                    /\ UNCHANGED outVars
          ELSE /\ PutRpcError(e.id, CODE_NOT_FOUND, "invalid request type", e.id)
               /\ UNCHANGED workers
       /\ UNCHANGED <<main_pc, tool_workers, inflight_requests_count>>
       /\ UNCHANGED <<regVars, sigVars, streamVars, reqVars, senderVars, stopVars, app>>

\* case Method.Method.Custom
DispatchCustom ==
    /\ recv_queue # <<>>
    /\ LET e == Head(recv_queue) IN
       /\ e.type = "Request"
       /\ e.method = "Custom"
       /\ Taken(e)
       /\ req' = [kind |-> "request", id |-> e.id]
       /\ IF e.method_str \notin DOMAIN handlers
          THEN /\ PutRpcError(e.id, CODE_NOT_FOUND, "Method not found", e.id)
               /\ UNCHANGED workers
          ELSE IF e.info = "NormalRequestInfo"
          THEN IF handlers[e.method_str].in_stream \/ handlers[e.method_str].out_stream
               THEN /\ PutRpcError(e.id, CODE_NOT_FOUND, "invalid request type", e.id)
                    /\ UNCHANGED workers
               ELSE IF inflight_requests_count > MAX_INFLIGHT_REQUESTS
               THEN /\ PutRpcError(e.id, CODE_TOO_MANY, "Too many requests", e.id)
                    /\ UNCHANGED workers
               ELSE /\ workers' = [workers EXCEPT ![e.id].pc = "spawned"]
                    /\ UNCHANGED outVars
          ELSE /\ PutRpcError(e.id, CODE_NOT_FOUND, "invalid request type", e.id)
               /\ UNCHANGED workers
       /\ UNCHANGED <<main_pc, tool_workers, inflight_requests_count>>
       /\ UNCHANGED <<regVars, sigVars, streamVars, reqVars, senderVars, stopVars, app>>

\* case Method.Method.ToolInvoke: an unknown tool id raises ValueError out of
\* _main_loop; a known one starts internal_tool_handler on a new thread.
DispatchToolInvoke ==
    /\ recv_queue # <<>>
    /\ LET e == Head(recv_queue) IN
       /\ e.type = "Request"
       /\ e.method = "ToolInvoke"
       /\ Taken(e)
       /\ req' = [kind |-> "request", id |-> e.id]
       /\ IF e.tool_id \notin DOMAIN internal_tools
          THEN /\ main_pc' = "raised"
               /\ UNCHANGED tool_workers
          ELSE /\ tool_workers' = [tool_workers EXCEPT
                     ![e.id].pc = "running",
                     ![e.id].handler = internal_tools[e.tool_id]]
               /\ UNCHANGED main_pc
       /\ UNCHANGED <<workers, inflight_requests_count>>
       /\ UNCHANGED <<regVars, sigVars, streamVars, reqVars, outVars, senderVars, stopVars, app>>

\* The callback cb of exec_request, run by the dispatcher: append the response
\* and notify the condition; a notify with no waiter is lost.
Callback(c, resp) ==
    callers' = [callers EXCEPT ![c].response = Append(@, resp),
                               ![c].pc = IF @ = "waiting" THEN "notified" ELSE @]

\* DispatchResponse without the del of the pending entry.
DispatchResponse_KeepsEntry ==
    /\ recv_queue # <<>>
    /\ LET e == Head(recv_queue) IN
       /\ e.type = "Response"
       /\ Taken(e)
       /\ IF e.id \notin DOMAIN pending_requests
          THEN UNCHANGED <<req, callers, pending_requests, cb_log>>
          ELSE /\ req' = [kind |-> "pending", id |-> 0 - 1]
               /\ Callback(pending_requests[e.id], e)
               /\ UNCHANGED pending_requests
               /\ cb_log' = Append(cb_log, [caller |-> pending_requests[e.id], resp |-> e])
       /\ UNCHANGED <<main_pc, global_id>>
       /\ UNCHANGED <<regVars, sigVars, streamVars, outVars, senderVars, workVars, stopVars, app>>

\* DispatchResponse without the membership test: the lookup of an id that has
\* no entry raises KeyError out of the dispatcher.
DispatchResponse_Unchecked ==
    /\ recv_queue # <<>>
    /\ LET e == Head(recv_queue) IN
       /\ e.type = "Response"
       /\ Taken(e)
       /\ IF e.id \notin DOMAIN pending_requests
          THEN /\ main_pc' = "raised"
               /\ UNCHANGED <<req, callers, pending_requests, cb_log>>
          ELSE /\ req' = [kind |-> "pending", id |-> 0 - 1]
               /\ Callback(pending_requests[e.id], e)
               /\ pending_requests' = Del(pending_requests, e.id)
               /\ cb_log' = Append(cb_log, [caller |-> pending_requests[e.id], resp |-> e])
               /\ UNCHANGED main_pc
       /\ UNCHANGED global_id
       /\ UNCHANGED <<regVars, sigVars, streamVars, outVars, senderVars, workVars, stopVars, app>>

\* A TransportResponse: pair it with its pending entry, call the callback and
\* delete the entry, all under _pending_requests_lock.
DispatchResponse ==
    /\ recv_queue # <<>>
    /\ LET e == Head(recv_queue) IN
       /\ e.type = "Response"
       /\ Taken(e)
       /\ IF e.id \notin DOMAIN pending_requests
          THEN UNCHANGED <<req, callers, pending_requests, cb_log>>
          ELSE /\ req' = [kind |-> "pending", id |-> 0 - 1]
               /\ Callback(pending_requests[e.id], e)
               /\ pending_requests' = Del(pending_requests, e.id)
               /\ cb_log' = Append(cb_log, [caller |-> pending_requests[e.id], resp |-> e])
       /\ UNCHANGED <<main_pc, global_id>>
       /\ UNCHANGED <<regVars, sigVars, streamVars, outVars, senderVars, workVars, stopVars, app>>

\* `case _` of the match on req.Method() and of the match on sig.Method():
\* log and raise ValueError, which leaves _main_loop and run().
DispatchInvalid ==
    /\ recv_queue # <<>>
    /\ LET e == Head(recv_queue) IN
       /\ \/ e.type = "Request" /\ e.method \notin {"ToolInvoke", "Custom"}
          \/ e.type = "Signal" /\ e.method \notin {"Terminate", "StreamData"}
       /\ Taken(e)
       /\ req' = IF e.type = "Request" THEN [kind |-> "request", id |-> e.id] ELSE req
       /\ main_pc' = "raised"
       /\ UNCHANGED <<regVars, sigVars, streamVars, reqVars, outVars, senderVars, workVars,
                      stopVars, app>>

\* DispatchTerminate without the return: the dispatcher stays in its loop.
DispatchTerminate_NoReturn ==
    /\ recv_queue # <<>>
    /\ LET e == Head(recv_queue) IN
       /\ e.type = "Signal"
       /\ e.method = "Terminate"
       /\ Taken(e)
       /\ stop_pc' = [stop_pc EXCEPT !["sig"] = "poll"]
       /\ UNCHANGED <<main_pc, req, stop_event, at_stop, exited>>
       /\ UNCHANGED <<regVars, sigVars, streamVars, reqVars, outVars, senderVars, workVars, app>>

\* case Signal.Signal.Terminate: self.stop() starts the drainer, then return.
DispatchTerminate ==
    /\ recv_queue # <<>>
    /\ LET e == Head(recv_queue) IN
       /\ e.type = "Signal"
       /\ e.method = "Terminate"
       /\ Taken(e)
       /\ main_pc' = "returned"
       /\ stop_pc' = [stop_pc EXCEPT !["sig"] = "poll"]
       /\ UNCHANGED <<req, stop_event, at_stop, exited>>
       /\ UNCHANGED <<regVars, sigVars, streamVars, reqVars, outVars, senderVars, workVars, app>>

\* An entry of _sig_handlers[Signal.StreamData]: a handler as given to
\* register_signal_handler, or the handler_wrapper of
\* register_stream_signal_handler.  calls_exec: the user function may call
\* exec_request (as thread "c1" of callers) before it returns; whether it
\* does depends on the event.
SigHandler(kind, stream_id, calls_exec) ==
    [kind |-> kind, stream_id |-> stream_id, calls_exec |-> calls_exec]

\* register_signal_handler(Signal.StreamData, handler), also @handle_stream
RegisterSignalHandler(calls_exec) ==
    /\ ~exited
    /\ Len(sig_handlers) < MaxSigHandlers
    /\ sig_handlers' = Append(sig_handlers, SigHandler("generic", 0 - 1, calls_exec))
    /\ UNCHANGED <<stream_calls, delivered>>
    /\ UNCHANGED <<regVars, streamVars, reqVars, inVars, outVars, senderVars, mainVars,
                   workVars, stopVars, app>>

\* register_signal_handler(Signal.StreamData, handler) with a function that
\* raises an Exception on every event.
RegisterRaisingHandler ==
    /\ ~exited
    /\ Len(sig_handlers) < MaxSigHandlers
    /\ sig_handlers' = Append(sig_handlers, SigHandler("raising", 0 - 1, FALSE))
    /\ UNCHANGED <<stream_calls, delivered>>
    /\ UNCHANGED <<regVars, streamVars, reqVars, inVars, outVars, senderVars, mainVars,
                   workVars, stopVars, app>>

\* register_stream_signal_handler(Signal.StreamData, stream_id, handler):
\* handler_wrapper is appended to the same list.
RegisterStreamSignalHandler(stream_id) ==
    /\ ~exited
    /\ Len(sig_handlers) < MaxSigHandlers
    /\ sig_handlers' = Append(sig_handlers, SigHandler("stream", stream_id, FALSE))
    /\ UNCHANGED <<stream_calls, delivered>>
    /\ UNCHANGED <<regVars, streamVars, reqVars, inVars, outVars, senderVars, mainVars,
                   workVars, stopVars, app>>

\* Whether the call handler(ctx) of the dispatcher reaches the user function:
\* always for a plain handler; for handler_wrapper only when ctx.data, read as
\* a StreamData table, yields the stream id it was registered for (a read
\* that raises is caught by the dispatcher's except).
ReachesUser(h, e) ==
    \/ h.kind \in {"generic", "raising"}
    \/ h.kind = "stream" /\ h.stream_id = e.parses_as

\* The invocations of user functions made for envelope number n by the
\* entries a..b of the handler list, in list order.
RECURSIVE Invocations(_, _, _, _)
Invocations(e, n, a, b) ==
    IF a > b THEN <<>>
    ELSE (IF ReachesUser(sig_handlers[a], e)
          THEN <<[handler |-> a, env |-> n]>> ELSE <<>>)
         \o Invocations(e, n, a + 1, b)

\* The first entry from position a on whose user function is reached and
\* calls exec_request; 0 when there is none.
RECURSIVE FirstBlocking(_, _)
FirstBlocking(e, a) ==
    IF a > Len(sig_handlers) THEN 0
    ELSE IF ReachesUser(sig_handlers[a], e) /\ sig_handlers[a].calls_exec THEN a
    ELSE FirstBlocking(e, a + 1)

\* The first handler at or after position a that raises for envelope e, or 0.
RECURSIVE FirstRaising(_, _)
FirstRaising(e, a) ==
    IF a > Len(sig_handlers) THEN 0
    ELSE IF sig_handlers[a].kind = "raising" THEN a
    ELSE FirstRaising(e, a + 1)

\* DispatchStreamData without the try/except around handler(ctx): the first
\* exception leaves the loop over the handlers and _main_loop.
DispatchStreamData_Uncaught ==
    /\ recv_queue # <<>>
    /\ LET e == Head(recv_queue)
           n == Len(handled) + 1
       IN
       /\ e.type = "Signal"
       /\ e.method = "StreamData"
       /\ Taken(e)
       /\ IF FirstRaising(e, 1) = 0
          THEN /\ delivered' = delivered \o Invocations(e, n, 1, Len(sig_handlers))
               /\ UNCHANGED main_pc
          ELSE /\ delivered' = delivered \o Invocations(e, n, 1, FirstRaising(e, 1))
               /\ main_pc' = "raised"
       /\ UNCHANGED <<req, sig_handlers, stream_calls>>
       /\ UNCHANGED <<regVars, streamVars, reqVars, outVars, senderVars, workVars,
                      stopVars, app>>

\* DispatchStreamData that skips an event whose sequence id does not rise or
\* that follows a final event on its stream.
DispatchStreamData_InSequenceOnly ==
    /\ recv_queue # <<>>
    /\ LET e == Head(recv_queue)
           n == Len(handled) + 1
       IN
       /\ e.type = "Signal"
       /\ e.method = "StreamData"
       /\ Taken(e)
       /\ delivered' = IF \E i \in 1..Len(handled) :
                               /\ handled[i].type = "Signal"
                               /\ handled[i].method = "StreamData"
                               /\ handled[i].stream_id = e.stream_id
                               /\ (handled[i].sequence_id >= e.sequence_id \/ handled[i].final)
                       THEN delivered
                       ELSE delivered \o Invocations(e, n, 1, Len(sig_handlers))
       /\ UNCHANGED <<main_pc, req, sig_handlers, stream_calls>>
       /\ UNCHANGED <<regVars, streamVars, reqVars, outVars, senderVars, workVars,
                      stopVars, app>>

\* case Signal.Signal.StreamData: every entry of the handler list is called in
\* order on the dispatcher thread, exceptions are logged and dropped.  The
\* loop runs up to the first user function that calls exec_request; the
\* dispatcher is then inside that function.
DispatchStreamData ==
    /\ recv_queue # <<>>
    /\ LET e == Head(recv_queue)
           n == Len(handled) + 1
       IN
       /\ e.type = "Signal"
       /\ e.method = "StreamData"
       /\ Taken(e)
       /\ IF FirstBlocking(e, 1) = 0
          THEN /\ delivered' = delivered \o Invocations(e, n, 1, Len(sig_handlers))
               /\ UNCHANGED main_pc
          ELSE /\ delivered' = delivered \o Invocations(e, n, 1, FirstBlocking(e, 1))
               /\ main_pc' = "in_handler"
       /\ UNCHANGED <<req, sig_handlers, stream_calls>>
       /\ UNCHANGED <<regVars, streamVars, reqVars, outVars, senderVars, workVars,
                      stopVars, app>>

\* handler(ctx) returns to the loop over the StreamData handlers: the user
\* function made no request, or its exec_request has returned or raised.
\* The handlers registered after it are called, and the dispatcher goes on
\* to the next envelope.
StreamHandlerReturn ==
    /\ ~exited
    /\ main_pc = "in_handler"
    /\ callers["c1"].pc \in {"idle", "returned", "raised"}
    /\ main_pc' = "loop"
    /\ LET last == delivered[Len(delivered)] IN
       delivered' = delivered \o Invocations(handled[last.env], last.env, last.handler + 1,
                                             Len(sig_handlers))
    /\ UNCHANGED <<req, handled, sig_handlers, stream_calls>>
    /\ UNCHANGED <<regVars, streamVars, reqVars, inVars, outVars, senderVars, workVars,
                   stopVars, app>>

\* --------------------------------------------------------- handle_worker
\* with self._inflight_requests_lock: self._inflight_requests_count += 1
WorkerIncrement(r) ==
    /\ ~exited
    /\ workers[r].pc = "spawned"
    /\ inflight_requests_count' = inflight_requests_count + 1
    /\ workers' = [workers EXCEPT ![r].pc = "running"]
    /\ UNCHANGED tool_workers
    /\ UNCHANGED <<regVars, sigVars, streamVars, reqVars, inVars, outVars, senderVars, mainVars,
                   stopVars, app>>

\* HandlerReturn without the call of _put_rpc_response: the worker goes on to
\* its decrement with nothing enqueued.
HandlerReturn_NoPut(r) ==
    /\ ~exited
    /\ workers[r].pc = "running"
    /\ workers' = [workers EXCEPT ![r].pc = "responded", ![r].outcome = "returned"]
    /\ UNCHANGED <<tool_workers, inflight_requests_count>>
    /\ UNCHANGED <<regVars, sigVars, streamVars, reqVars, inVars, outVars, senderVars, mainVars,
                   stopVars, app>>

\* The handler returns None, a str or bytes: _put_rpc_response(req_id, ...).
HandlerReturn(r) ==
    /\ ~exited
    /\ workers[r].pc = "running"
    /\ PutRpcResponse(r, r)
    /\ workers' = [workers EXCEPT ![r].pc = "responded", ![r].outcome = "returned"]
    /\ UNCHANGED <<tool_workers, inflight_requests_count>>
    /\ UNCHANGED <<regVars, sigVars, streamVars, reqVars, inVars, senderVars, mainVars, stopVars, app>>

\* HandlerRaise without the except branch: the exception ends the thread.
HandlerRaise_Uncaught(r) ==
    /\ ~exited
    /\ workers[r].pc = "running"
    /\ workers' = [workers EXCEPT ![r].pc = "done", ![r].outcome = "raised"]
    /\ UNCHANGED <<tool_workers, inflight_requests_count>>
    /\ UNCHANGED <<regVars, sigVars, streamVars, reqVars, inVars, outVars, senderVars, mainVars,
                   stopVars, app>>

\* The handler raises, or returns a value of another type: the except branch
\* calls _put_rpc_error(req_id, -32603, str(e), ...).
HandlerRaise(r) ==
    /\ ~exited
    /\ workers[r].pc = "running"
    /\ PutRpcError(r, CODE_INTERNAL, "exception text", r)
    /\ workers' = [workers EXCEPT ![r].pc = "responded", ![r].outcome = "raised"]
    /\ UNCHANGED <<tool_workers, inflight_requests_count>>
    /\ UNCHANGED <<regVars, sigVars, streamVars, reqVars, inVars, senderVars, mainVars, stopVars, app>>

\* WorkerDecrement whose update of the counter is lost.
WorkerDecrement_Lost(r) ==
    /\ ~exited
    /\ workers[r].pc = "responded"
    /\ workers' = [workers EXCEPT ![r].pc = "done"]
    /\ UNCHANGED <<tool_workers, inflight_requests_count>>
    /\ UNCHANGED <<regVars, sigVars, streamVars, reqVars, inVars, outVars, senderVars, mainVars,
                   stopVars, app>>

\* with self._inflight_requests_lock: self._inflight_requests_count -= 1
WorkerDecrement(r) ==
    /\ ~exited
    /\ workers[r].pc = "responded"
    /\ inflight_requests_count' = inflight_requests_count - 1
    /\ workers' = [workers EXCEPT ![r].pc = "done"]
    /\ UNCHANGED tool_workers
    /\ UNCHANGED <<regVars, sigVars, streamVars, reqVars, inVars, outVars, senderVars, mainVars,
                   stopVars, app>>

\* ------------------------------------------------- internal_tool_handler
\* The id the tool thread answers with: req.Id(), where req is the variable of
\* _main_loop the closure shares, read when the tool function has ended.
ToolReplyId(r) == req.id

\* The tool function ends.  req.Id() is evaluated now; when req has been
\* rebound to a pending-table entry (a dict) it raises AttributeError, in the
\* try block and again in the except block, and the thread dies silently.
ToolFinish(r, raised) ==
    /\ ~exited
    /\ tool_workers[r].pc = "running"
    /\ IF req.kind = "request"
       THEN /\ IF raised
               THEN PutRpcError(ToolReplyId(r), CODE_INTERNAL, "exception text", r)
               ELSE PutRpcResponse(ToolReplyId(r), r)
            /\ tool_workers' = [tool_workers EXCEPT
                  ![r].pc = "done",
                  ![r].outcome = IF raised THEN "raised" ELSE "returned"]
       ELSE /\ tool_workers' = [tool_workers EXCEPT ![r].pc = "done", ![r].outcome = "died"]
            /\ UNCHANGED outVars
    /\ UNCHANGED <<workers, inflight_requests_count>>
    /\ UNCHANGED <<regVars, sigVars, streamVars, reqVars, inVars, senderVars, mainVars, stopVars, app>>

ToolReturn(r) == ToolFinish(r, FALSE)

ToolRaise(r) == ToolFinish(r, TRUE)

\* ------------------------------------------------------------ stop_worker
\* The application calls agent.stop(): a stop_worker thread is started.
Stop ==
    /\ ~exited
    /\ stop_pc["user"] = "none"
    /\ stop_pc' = [stop_pc EXCEPT !["user"] = "poll"]
    /\ UNCHANGED <<stop_event, at_stop, exited>>
    /\ UNCHANGED <<regVars, sigVars, streamVars, reqVars, inVars, outVars, senderVars, mainVars,
                   workVars, app>>

\* The polling loop reads _inflight_requests_count == 0 under the lock and breaks.
StopWorkerBreak(t) ==
    /\ ~exited
    /\ stop_pc[t] = "poll"
    /\ inflight_requests_count = 0
    /\ stop_pc' = [stop_pc EXCEPT ![t] = "fire"]
    /\ UNCHANGED <<stop_event, at_stop, exited>>
    /\ UNCHANGED <<regVars, sigVars, streamVars, reqVars, inVars, outVars, senderVars, mainVars,
                   workVars, app>>

\* StopWorkerFire without the send on _stop_event_w.
StopWorkerFire_NoSend(t) ==
    /\ ~exited
    /\ stop_pc[t] = "fire"
    /\ stop_pc' = [stop_pc EXCEPT ![t] = "join"]
    /\ UNCHANGED <<stop_event, at_stop, exited>>
    /\ UNCHANGED <<regVars, sigVars, streamVars, reqVars, inVars, outVars, senderVars, mainVars,
                   workVars, app>>

\* self._stop_event_w.send(b"\x01")
StopWorkerFire(t) ==
    /\ ~exited
    /\ stop_pc[t] = "fire"
    /\ stop_event' = stop_event + 1
    /\ at_stop' = IF stop_event = 0
                  THEN [enq |-> Len(enqueued), wr |-> Len(written)]
                  ELSE at_stop
    /\ stop_pc' = [stop_pc EXCEPT ![t] = "join"]
    /\ UNCHANGED exited
    /\ UNCHANGED <<regVars, sigVars, streamVars, reqVars, inVars, outVars, senderVars, mainVars,
                   workVars, app>>

\* _send_task.join(); _recv_task.join(); self._client.close(); os._exit(0)
StopWorkerExit(t) ==
    /\ ~exited
    /\ stop_pc[t] = "join"
    /\ send_pc = "exited"
    /\ recv_pc = "exited"
    /\ exited' = TRUE
    /\ stop_pc' = [stop_pc EXCEPT ![t] = "exited"]
    /\ UNCHANGED <<stop_event, at_stop>>
    /\ UNCHANGED <<regVars, sigVars, streamVars, reqVars, inVars, outVars, senderVars, mainVars,
                   workVars, app>>

\* ----------------------------------------------------------- exec_request
\* A thread calls exec_request; _put_rpc_request starts: new_id = self._global_id
ExecReadId(c) ==
    /\ ~exited
    /\ callers[c].pc = "idle"
    /\ callers' = [callers EXCEPT ![c].pc = "got_id", ![c].new_id = global_id]
    /\ app' = [app EXCEPT !.calls = @ + 1]
    /\ UNCHANGED <<global_id, pending_requests, cb_log>>
    /\ UNCHANGED <<regVars, sigVars, streamVars, inVars, outVars, senderVars, mainVars, workVars,
                   stopVars>>

\* self._global_id += 1, the read half (no lock is held)
ExecLoadId(c) ==
    /\ ~exited
    /\ callers[c].pc = "got_id"
    /\ callers' = [callers EXCEPT ![c].pc = "loaded", ![c].tmp = global_id]
    /\ UNCHANGED <<global_id, pending_requests, cb_log>>
    /\ UNCHANGED <<regVars, sigVars, streamVars, inVars, outVars, senderVars, mainVars, workVars,
                   stopVars, app>>

\* self._global_id += 1, the write half
ExecStoreId(c) ==
    /\ ~exited
    /\ callers[c].pc = "loaded"
    /\ global_id' = callers[c].tmp + 1
    /\ callers' = [callers EXCEPT ![c].pc = "stored"]
    /\ UNCHANGED <<pending_requests, cb_log>>
    /\ UNCHANGED <<regVars, sigVars, streamVars, inVars, outVars, senderVars, mainVars, workVars,
                   stopVars, app>>

\* with self._pending_requests_lock: self._pending_requests[new_id] = {..., "cb": cb}
ExecInsert(c) ==
    /\ ~exited
    /\ callers[c].pc = "stored"
    /\ pending_requests' = (callers[c].new_id :> c) @@ pending_requests
    /\ callers' = [callers EXCEPT ![c].pc = "inserted"]
    /\ UNCHANGED <<global_id, cb_log>>
    /\ UNCHANGED <<regVars, sigVars, streamVars, inVars, outVars, senderVars, mainVars, workVars,
                   stopVars, app>>

\* self._put_raw_object(data), the last statement of _put_rpc_request
ExecPut(c) ==
    /\ ~exited
    /\ callers[c].pc = "inserted"
    /\ PutRawObject(RequestFrame(callers[c].new_id))
    /\ callers' = [callers EXCEPT ![c].pc = "put"]
    /\ UNCHANGED <<global_id, pending_requests, cb_log>>
    /\ UNCHANGED <<regVars, sigVars, streamVars, inVars, senderVars, mainVars, workVars, stopVars, app>>

\* with mutex: cond.wait() -- the thread blocks until a later notify
ExecWait(c) ==
    /\ ~exited
    /\ callers[c].pc = "put"
    /\ callers' = [callers EXCEPT ![c].pc = "waiting"]
    /\ UNCHANGED <<global_id, pending_requests, cb_log>>
    /\ UNCHANGED <<regVars, sigVars, streamVars, inVars, outVars, senderVars, mainVars, workVars,
                   stopVars, app>>

\* ExecWake without the test of resp.Code(): the payload is returned always.
ExecWake_IgnoresCode(c) ==
    /\ ~exited
    /\ callers[c].pc = "notified"
    /\ callers' = [callers EXCEPT ![c].pc = "returned",
                                  ![c].result = callers[c].response[1].response]
    /\ UNCHANGED <<global_id, pending_requests, cb_log>>
    /\ UNCHANGED <<regVars, sigVars, streamVars, inVars, outVars, senderVars, mainVars, workVars,
                   stopVars, app>>

\* Woken: resp = response[0]; raise RuntimeError(resp.Message()) if
\* resp.Code() != 0, else return resp.ResponseAsNumpy().
ExecWake(c) ==
    /\ ~exited
    /\ callers[c].pc = "notified"
    /\ LET resp == callers[c].response[1] IN
       callers' = [callers EXCEPT
          ![c].pc = IF resp.code # 0 THEN "raised" ELSE "returned",
          ![c].result = IF resp.code # 0 THEN resp.message ELSE resp.response]
    /\ UNCHANGED <<global_id, pending_requests, cb_log>>
    /\ UNCHANGED <<regVars, sigVars, streamVars, inVars, outVars, senderVars, mainVars, workVars,
                   stopVars, app>>

\* ------------------------------------------- create_stream / close_stream
\* The names bound at module level in spear.client; create_stream and
\* close_stream look up register_stream_handler and unregister_stream_handler
\* there.
ClientModuleNames ==
    {"MAX_INFLIGHT_REQUESTS", "DEFAULT_MESSAGE_SIZE", "SYS_IO_STREAM_ID", "logger",
     "Handler", "RequestContext", "RawStreamRequestContext", "data_to_bytes",
     "StreamRequestContext", "HostAgent", "_global_agent", "handle", "handle_stream",
     "init", "global_agent"}

\* req_id = uuid.uuid4().int & 0x7FFFFFFF: a fresh value for every call.
NewRequestId(c) == IF c = "c1" THEN 11 ELSE 12

\* The application thread is inside no stream-control call.
NoCallInProgress == \A c \in Callers : stream_calls[c].pc # "in_exec"

\* create_stream(class_name, handler) up to the call of agent.exec_request.
CreateStreamBegin(c) ==
    /\ ~exited
    /\ NoCallInProgress
    /\ stream_calls[c].pc = "idle"
    /\ callers[c].pc = "idle"
    /\ stream_calls' = [stream_calls EXCEPT
          ![c] = [pc |-> "in_exec", op |-> "New", req_id |-> NewRequestId(c),
                  stream_id |-> 0 - 1, outcome |-> "none",
                  seq_at_end |-> <<>>]]
    /\ UNCHANGED <<sig_handlers, delivered>>
    /\ UNCHANGED <<regVars, streamVars, reqVars, inVars, outVars, senderVars, mainVars,
                   workVars, stopVars, app>>

\* close_stream(stream_id) up to the call of agent.exec_request.
CloseStreamBegin(c, stream_id) ==
    /\ ~exited
    /\ NoCallInProgress
    /\ stream_calls[c].pc = "idle"
    /\ callers[c].pc = "idle"
    /\ stream_calls' = [stream_calls EXCEPT
          ![c] = [pc |-> "in_exec", op |-> "Close", req_id |-> NewRequestId(c),
                  stream_id |-> stream_id, outcome |-> "none",
                  seq_at_end |-> <<>>]]
    /\ UNCHANGED <<sig_handlers, delivered>>
    /\ UNCHANGED <<regVars, streamVars, reqVars, inVars, outVars, senderVars, mainVars,
                   workVars, stopVars, app>>

\* self._put_raw_object(data) of the exec_request made by create_stream or
\* close_stream: the request frame carries the StreamControlRequest.
StreamExecPut(c) ==
    /\ ~exited
    /\ stream_calls[c].pc = "in_exec"
    /\ callers[c].pc = "inserted"
    /\ PutRawObject(StreamCtrlFrame(callers[c].new_id, stream_calls[c].op,
                                    stream_calls[c].req_id, stream_calls[c].stream_id))
    /\ callers' = [callers EXCEPT ![c].pc = "put"]
    /\ UNCHANGED <<global_id, pending_requests, cb_log>>
    /\ UNCHANGED <<regVars, sigVars, streamVars, inVars, senderVars, mainVars, workVars,
                   stopVars, app>>

\* CreateStreamOutcome without the two tests of the reply.
CreateStreamOutcome_Unchecked(c) ==
    IF callers[c].pc = "raised" THEN "RuntimeError"
    ELSE IF "register_stream_handler" \notin ClientModuleNames THEN "AttributeError"
    ELSE "returned"

\* How create_stream ends once exec_request has returned resp or raised.
CreateStreamOutcome(c) ==
    IF callers[c].pc = "raised" THEN "RuntimeError"
    ELSE IF callers[c].result.request_id # stream_calls[c].req_id THEN "ValueError"
    ELSE IF callers[c].result.stream_id <= 0 THEN "ValueError"
    ELSE IF "register_stream_handler" \notin ClientModuleNames THEN "AttributeError"
    ELSE "returned"

\* How close_stream ends once exec_request has returned resp or raised.
CloseStreamOutcome(c) ==
    IF callers[c].pc = "raised" THEN "RuntimeError"
    ELSE IF callers[c].result.stream_id # stream_calls[c].stream_id THEN "ValueError"
    ELSE IF callers[c].result.request_id # stream_calls[c].req_id THEN "ValueError"
    ELSE IF "unregister_stream_handler" \notin ClientModuleNames THEN "AttributeError"
    ELSE "returned"

\* create_stream after exec_request: the tests of the reply, then
\* client.register_stream_handler(resp.StreamId(), handler) and the return.
\* Nothing in it writes _sig_handlers or _stream_sequence_ids.
CreateStreamEnd(c) ==
    /\ ~exited
    /\ stream_calls[c].pc = "in_exec"
    /\ stream_calls[c].op = "New"
    /\ callers[c].pc \in {"returned", "raised"}
    /\ stream_calls' = [stream_calls EXCEPT
          ![c].pc = "done",
          ![c].outcome = CreateStreamOutcome(c),
          ![c].seq_at_end = stream_sequence_ids,
          ![c].stream_id = IF callers[c].pc = "returned"
                           THEN callers[c].result.stream_id ELSE 0 - 1]
    /\ UNCHANGED <<sig_handlers, delivered>>
    /\ UNCHANGED <<regVars, streamVars, reqVars, inVars, outVars, senderVars, mainVars,
                   workVars, stopVars, app>>

\* close_stream after exec_request: the tests of the reply, then
\* client.unregister_stream_handler(stream_id).
CloseStreamEnd(c) ==
    /\ ~exited
    /\ stream_calls[c].pc = "in_exec"
    /\ stream_calls[c].op = "Close"
    /\ callers[c].pc \in {"returned", "raised"}
    /\ stream_calls' = [stream_calls EXCEPT
          ![c].pc = "done",
          ![c].outcome = CloseStreamOutcome(c),
          ![c].seq_at_end = stream_sequence_ids]
    /\ UNCHANGED <<sig_handlers, delivered>>
    /\ UNCHANGED <<regVars, streamVars, reqVars, inVars, outVars, senderVars, mainVars,
                   workVars, stopVars, app>>

\* --------------------------------------------------------- stream events
\* generate_sequence_id(stream_id): the value returned and the new table.
SeqIdOf(ids, stream_id) == IF stream_id \in DOMAIN ids THEN ids[stream_id] ELSE 0

SeqIdsAfter(ids, stream_id) ==
    IF stream_id \in DOMAIN ids
    THEN [ids EXCEPT ![stream_id] = @ + 1]
    ELSE (stream_id :> 0) @@ ids

\* send_operation_event / send_notification_event / send_rawdata_event up to
\* builder.Output(): the sequence id is taken under the lock and built in.
SendEventBuild(t, stream_id, dtype, final) ==
    /\ ~exited
    /\ app.events < MaxEvents
    /\ streamers[t].pc = "idle"
    /\ stream_sequence_ids' = SeqIdsAfter(stream_sequence_ids, stream_id)
    /\ streamers' = [streamers EXCEPT
          ![t] = [pc |-> "built",
                  frame |-> SignalFrame(stream_id, SeqIdOf(stream_sequence_ids, stream_id),
                                        dtype, final)]]
    /\ app' = [app EXCEPT !.events = @ + 1]
    /\ UNCHANGED <<regVars, sigVars, reqVars, inVars, outVars, senderVars, mainVars, workVars,
                   stopVars>>

\* last_message defaults to False for operation and notification events.
SendOperationEvent(t) ==
    \E stream_id \in StreamIds :
       SendEventBuild(t, stream_id, "StreamOperationEvent", FALSE)

SendNotificationEvent(t) ==
    \E stream_id \in StreamIds :
       SendEventBuild(t, stream_id, "StreamNotificationEvent", FALSE)

SendRawdataEvent(t) ==
    \E stream_id \in StreamIds, final \in BOOLEAN :
       SendEventBuild(t, stream_id, "StreamRawData", final)

\* _put_signal(...) / _put_raw_object(builder.Output()): the event is enqueued.
SendEventPut(t) ==
    /\ ~exited
    /\ streamers[t].pc = "built"
    /\ PutRawObject(streamers[t].frame)
    /\ streamers' = [streamers EXCEPT ![t] = [pc |-> "idle", frame |-> NoFrame]]
    /\ UNCHANGED stream_sequence_ids
    /\ UNCHANGED <<regVars, sigVars, reqVars, inVars, senderVars, mainVars, workVars, stopVars, app>>

\* _put_raw_object, first statement: self._send_queue.put(data) blocks while
\* the queue is full.
SendEventQueuePut(t) ==
    /\ ~exited
    /\ streamers[t].pc = "built"
    /\ Len(send_queue) < SEND_QUEUE_SIZE
    /\ send_queue' = Append(send_queue, streamers[t].frame)
    /\ enqueued' = Append(enqueued, streamers[t].frame)
    /\ streamers' = [streamers EXCEPT ![t].pc = "queued"]
    /\ UNCHANGED <<send_task_pipe, stream_sequence_ids>>
    /\ UNCHANGED <<regVars, sigVars, reqVars, inVars, senderVars, mainVars, workVars, stopVars, app>>

\* _put_raw_object, second statement: os.write(self._send_task_pipe_w, b"\x01").
SendEventNotify(t) ==
    /\ ~exited
    /\ streamers[t].pc = "queued"
    /\ send_task_pipe' = send_task_pipe + 1
    /\ streamers' = [streamers EXCEPT ![t] = [pc |-> "idle", frame |-> NoFrame]]
    /\ UNCHANGED <<send_queue, enqueued, stream_sequence_ids>>
    /\ UNCHANGED <<regVars, sigVars, reqVars, inVars, senderVars, mainVars, workVars, stopVars, app>>

\* -------------------------------------------------------- specifications
\* Inbound Custom requests and Terminate: the dispatcher, the handler
\* workers, the drainer, the sender and the receiver.
Next ==
    \/ HostRequest(CustomRequests)
    \/ HostTerminate
    \/ DispatchCustom
    \/ DispatchTerminate
    \/ \E r \in RequestIds : WorkerIncrement(r)
    \/ \E r \in RequestIds : HandlerReturn(r)
    \/ \E r \in RequestIds : HandlerRaise(r)
    \/ \E r \in RequestIds : WorkerDecrement(r)
    \/ StopWorkerBreak("sig")
    \/ StopWorkerFire("sig")
    \/ StopWorkerExit("sig")
    \/ SenderSendData
    \/ SenderStop
    \/ SenderDrain
    \/ SenderTerminator
    \/ RecvStop

Spec == Init /\ [][Next]_vars

\* Inbound Custom requests, and shutdown by a Terminate signal or by stop(),
\* under fair scheduling: every thread of the agent that can take a step
\* eventually takes it, and a running handler eventually returns.
\* The host and the application (the call of stop()) are not obliged to act.
StopRequests == {CustomRequest("echo", "NormalRequestInfo")}

NextStop ==
    \/ host.sent < MaxStopInbound /\ HostRequest(StopRequests)
    \/ host.sent < MaxStopInbound /\ HostTerminate
    \/ DispatchCustom
    \/ DispatchTerminate
    \/ \E r \in RequestIds : WorkerIncrement(r)
    \/ \E r \in RequestIds : HandlerReturn(r)
    \/ \E r \in RequestIds : WorkerDecrement(r)
    \/ Stop
    \/ \E t \in StopThreads : StopWorkerBreak(t)
    \/ \E t \in StopThreads : StopWorkerFire(t)
    \/ \E t \in StopThreads : StopWorkerExit(t)
    \/ SenderSendData
    \/ SenderStop
    \/ SenderDrain
    \/ SenderTerminator
    \/ RecvStop

SpecStopFair ==
    /\ Init
    /\ [][NextStop]_vars
    /\ WF_vars(DispatchCustom)
    /\ WF_vars(DispatchTerminate)
    /\ \A r \in RequestIds :
          /\ WF_vars(WorkerIncrement(r))
          /\ WF_vars(HandlerReturn(r))
          /\ WF_vars(WorkerDecrement(r))
    /\ \A t \in StopThreads :
          WF_vars(StopWorkerBreak(t)) /\ WF_vars(StopWorkerFire(t)) /\ WF_vars(StopWorkerExit(t))
    /\ WF_vars(SenderSendData)
    /\ WF_vars(SenderStop)
    /\ WF_vars(SenderDrain)
    /\ WF_vars(SenderTerminator)
    /\ WF_vars(RecvStop)

\* One application thread sending stream events one after another, and an
\* explicit stop().
NextStream ==
    \/ SendOperationEvent("t1")
    \/ SendNotificationEvent("t1")
    \/ SendRawdataEvent("t1")
    \/ SendEventPut("t1")
    \/ Stop
    \/ StopWorkerBreak("user")
    \/ StopWorkerFire("user")
    \/ StopWorkerExit("user")
    \/ SenderSendData
    \/ SenderStop
    \/ SenderDrain
    \/ SenderTerminator
    \/ RecvStop

SpecStream == Init /\ [][NextStream]_vars

\* Threads in exec_request, the host answering in any order, the dispatcher
\* pairing the responses.
NextExec ==
    \/ \E c \in Callers : ExecReadId(c)
    \/ \E c \in Callers : ExecLoadId(c)
    \/ \E c \in Callers : ExecStoreId(c)
    \/ \E c \in Callers : ExecInsert(c)
    \/ \E c \in Callers : ExecPut(c)
    \/ \E c \in Callers : ExecWait(c)
    \/ \E c \in Callers : ExecWake(c)
    \/ SenderSendData
    \/ HostResponse
    \/ DispatchResponse

SpecExec == Init /\ [][NextExec]_vars

\* One thread in exec_request and a host that also sends responses no
\* request asked for.
NextExecStray ==
    \/ ExecReadId("c1")
    \/ ExecLoadId("c1")
    \/ ExecStoreId("c1")
    \/ ExecInsert("c1")
    \/ ExecPut("c1")
    \/ ExecWait("c1")
    \/ ExecWake("c1")
    \/ SenderSendData
    \/ HostResponse
    \/ HostStrayResponse
    \/ DispatchResponse

SpecExecStray == Init /\ [][NextExecStray]_vars

\* The application registers and unregisters method handlers and sets
\* internal tools while the host invokes tool 42.
RegistryMethods == {"echo", "extra"}

NextRegistry ==
    \/ \E method \in RegistryMethods, handler \in {"f1", "f2"},
          in_stream \in BOOLEAN, out_stream \in BOOLEAN :
          RegisterHandler(method, handler, in_stream, out_stream)
    \/ \E method \in RegistryMethods : UnregisterHandler(method)
    \/ \E tid \in {42, 44}, handler \in {"tool_a", "tool_b"} : SetInternalTool(tid, handler)
    \/ host.sent < MaxStopInbound /\ HostRequest({ToolInvocationRequest(42)})
    \/ DispatchToolInvoke
    \/ \E r \in RequestIds : ToolReturn(r)

SpecRegistry == Init /\ [][NextRegistry]_vars

\* One application thread that calls create_stream and then close_stream,
\* another that sends operation events on stream 5 at any time, and the host
\* answering the stream-control requests rightly or wrongly.
NextStreamCtrl ==
    \/ CreateStreamBegin("c1")
    \/ \E stream_id \in StreamIds :
          stream_calls["c1"].pc = "done" /\ CloseStreamBegin("c2", stream_id)
    \/ \E c \in Callers : stream_calls[c].pc = "in_exec" /\ ExecReadId(c)
    \/ \E c \in Callers : ExecLoadId(c)
    \/ \E c \in Callers : ExecStoreId(c)
    \/ \E c \in Callers : ExecInsert(c)
    \/ \E c \in Callers : StreamExecPut(c)
    \/ \E c \in Callers : ExecWait(c)
    \/ \E c \in Callers : ExecWake(c)
    \/ CreateStreamEnd("c1")
    \/ CloseStreamEnd("c2")
    \/ SendEventBuild("t1", 5, "StreamOperationEvent", FALSE)
    \/ SendEventPut("t1")
    \/ SenderSendData
    \/ HostStreamCtrlResponse
    \/ DispatchResponse

SpecStreamCtrl == Init /\ [][NextStreamCtrl]_vars

\* Every kind of inbound envelope before and after a Terminate signal: Custom
\* and ToolInvoke requests, StreamData signals with a handler registered, and
\* the Response to a request that thread "c1" made.
NextTerminate ==
    \/ host.sent < MaxStopInbound /\ HostRequest({CustomRequest("echo", "NormalRequestInfo"),
                                                   ToolInvocationRequest(42)})
    \/ host.sent < MaxStopInbound /\ HostStreamData({"StreamRawData"})
    \/ host.sent < MaxStopInbound /\ HostTerminate
    \/ sig_handlers = <<>> /\ RegisterSignalHandler(FALSE)
    \/ DispatchCustom
    \/ DispatchToolInvoke
    \/ DispatchStreamData
    \/ DispatchResponse
    \/ DispatchTerminate
    \/ \E r \in RequestIds : WorkerIncrement(r)
    \/ \E r \in RequestIds : HandlerReturn(r)
    \/ \E r \in RequestIds : WorkerDecrement(r)
    \/ \E r \in RequestIds : ToolReturn(r)
    \/ ExecReadId("c1")
    \/ ExecLoadId("c1")
    \/ ExecStoreId("c1")
    \/ ExecInsert("c1")
    \/ ExecPut("c1")
    \/ ExecWait("c1")
    \/ ExecWake("c1")
    \/ HostResponse
    \/ StopWorkerBreak("sig")
    \/ StopWorkerFire("sig")
    \/ StopWorkerExit("sig")
    \/ SenderSendData
    \/ SenderStop
    \/ SenderDrain
    \/ SenderTerminator
    \/ RecvStop

SpecTerminate == Init /\ [][NextTerminate]_vars

\* Inbound StreamData signals with handlers that raise and handlers that
\* return, registered in any order.
NextSignalRaise ==
    \/ RegisterRaisingHandler
    \/ RegisterSignalHandler(FALSE)
    \/ HostStreamData({"StreamRawData"})
    \/ DispatchStreamData

SpecSignalRaise == Init /\ [][NextSignalRaise]_vars

\* Requests and signals the dispatcher has no branch for, next to Custom
\* requests and Terminate, under fair scheduling: every thread of the agent
\* that can take a step eventually takes it.  The host is not obliged to act
\* and the application does not call stop().
NextInvalid ==
    \/ host.sent < MaxStopInbound /\ HostRequest(StopRequests \cup
                                           {[type |-> "Request", method |-> "Transform",
                                             method_str |-> "", info |-> "", tool_id |-> 0]})
    \/ host.sent < MaxStopInbound /\ HostOtherSignal
    \/ host.sent < MaxStopInbound /\ HostTerminate
    \/ DispatchCustom
    \/ DispatchInvalid
    \/ DispatchTerminate
    \/ \E r \in RequestIds : WorkerIncrement(r)
    \/ \E r \in RequestIds : HandlerReturn(r)
    \/ \E r \in RequestIds : WorkerDecrement(r)
    \/ StopWorkerBreak("sig")
    \/ StopWorkerFire("sig")
    \/ StopWorkerExit("sig")
    \/ SenderSendData
    \/ SenderStop
    \/ SenderDrain
    \/ SenderTerminator
    \/ RecvStop

SpecInvalidFair ==
    /\ Init
    /\ [][NextInvalid]_vars
    /\ WF_vars(DispatchCustom)
    /\ WF_vars(DispatchInvalid)
    /\ WF_vars(DispatchTerminate)
    /\ \A r \in RequestIds :
          /\ WF_vars(WorkerIncrement(r))
          /\ WF_vars(HandlerReturn(r))
          /\ WF_vars(WorkerDecrement(r))
    /\ WF_vars(StopWorkerBreak("sig"))
    /\ WF_vars(StopWorkerFire("sig"))
    /\ WF_vars(StopWorkerExit("sig"))
    /\ WF_vars(SenderSendData)
    /\ WF_vars(SenderStop)
    /\ WF_vars(SenderDrain)
    /\ WF_vars(SenderTerminator)
    /\ WF_vars(RecvStop)

\* The wake-up pipe and the send queue statement by statement: two threads
\* publishing events on stream 5, each with queue.put and os.write as separate
\* steps, the sender with os.read and queue.get as separate steps, and an
\* explicit stop(). Every thread of the agent that can take a step eventually
\* takes it; the application is not obliged to publish or to call stop().
NextPipe ==
    \/ \E t \in Streamers : SendEventBuild(t, 5, "StreamOperationEvent", FALSE)
    \/ \E t \in Streamers : SendEventQueuePut(t)
    \/ \E t \in Streamers : SendEventNotify(t)
    \/ SenderReadPipe
    \/ SenderGet
    \/ Stop
    \/ StopWorkerBreak("user")
    \/ StopWorkerFire("user")
    \/ StopWorkerExit("user")
    \/ SenderStop
    \/ SenderDrain
    \/ SenderTerminator
    \/ RecvStop

SpecPipeFair ==
    /\ Init
    /\ [][NextPipe]_vars
    /\ \A t \in Streamers : WF_vars(SendEventQueuePut(t)) /\ WF_vars(SendEventNotify(t))
    /\ WF_vars(SenderReadPipe)
    /\ WF_vars(SenderGet)
    /\ WF_vars(SenderStop)
    /\ WF_vars(SenderDrain)
    /\ WF_vars(SenderTerminator)
    /\ WF_vars(RecvStop)
    /\ WF_vars(StopWorkerBreak("user"))
    /\ WF_vars(StopWorkerFire("user"))
    /\ WF_vars(StopWorkerExit("user"))

\* More publishers than the send queue has room for: one thread sending
\* events on stream 5 and two threads in exec_request, with the sender
\* writing at its own pace.
NextBackpressure ==
    \/ SendEventBuild("t1", 5, "StreamOperationEvent", FALSE)
    \/ SendEventPut("t1")
    \/ \E c \in Callers : ExecReadId(c)
    \/ \E c \in Callers : ExecLoadId(c)
    \/ \E c \in Callers : ExecStoreId(c)
    \/ \E c \in Callers : ExecInsert(c)
    \/ \E c \in Callers : ExecPut(c)
    \/ SenderSendData

SpecBackpressure == Init /\ [][NextBackpressure]_vars

\* The application registers handlers, tools and signal handlers, sends an
\* event, starts a request, and calls HostAgent() again at any point.
NextSingleton ==
    \/ RegisterHandler("extra", "f2", FALSE, FALSE)
    \/ SetInternalTool(44, "tool_b")
    \/ RegisterSignalHandler(FALSE)
    \/ SendEventBuild("t1", 5, "StreamOperationEvent", FALSE)
    \/ SendEventPut("t1")
    \/ ExecReadId("c1")
    \/ ExecLoadId("c1")
    \/ ExecStoreId("c1")
    \/ ExecInsert("c1")
    \/ ExecPut("c1")
    \/ Construct

SpecSingleton == Init /\ [][NextSingleton]_vars

\* Inbound events on stream 5 with any sequence ids and final flags, and
\* handlers registered before and while they arrive.
NextInbound ==
    \/ RegisterSignalHandler(FALSE)
    \/ RegisterStreamSignalHandler(5)
    \/ HostStreamEvent
    \/ DispatchStreamData

SpecInbound == Init /\ [][NextInbound]_vars

\* Inbound ToolInvoke requests for the registered tool 42 and shutdown by a
\* Terminate signal: after Terminate the dispatcher has returned, so a tool
\* function still running then was started before Terminate was processed.
NextToolStop ==
    \/ host.sent < MaxStopInbound /\ HostRequest({ToolInvocationRequest(42)})
    \/ host.sent < MaxStopInbound /\ HostTerminate
    \/ DispatchToolInvoke
    \/ DispatchTerminate
    \/ \E r \in RequestIds : ToolReturn(r)
    \/ \E r \in RequestIds : ToolRaise(r)
    \/ StopWorkerBreak("sig")
    \/ StopWorkerFire("sig")
    \/ StopWorkerExit("sig")
    \/ SenderSendData
    \/ SenderStop
    \/ SenderDrain
    \/ SenderTerminator
    \/ RecvStop

SpecToolStop == Init /\ [][NextToolStop]_vars

\* A StreamData handler that may call exec_request (its call is thread "c1"),
\* an application thread "c2" that calls exec_request on its own, and the
\* host answering the requests it reads.
NextSignalExec ==
    \/ sig_handlers = <<>> /\ RegisterSignalHandler(TRUE)
    \/ host.sent < MaxSignals /\ HostStreamData({"StreamRawData"})
    \/ DispatchStreamData
    \/ StreamHandlerReturn
    \/ main_pc = "in_handler" /\ ExecReadId("c1")
    \/ ExecReadId("c2")
    \/ \E c \in Callers : ExecLoadId(c)
    \/ \E c \in Callers : ExecStoreId(c)
    \/ \E c \in Callers : ExecInsert(c)
    \/ \E c \in Callers : ExecPut(c)
    \/ \E c \in Callers : ExecWait(c)
    \/ \E c \in Callers : ExecWake(c)
    \/ SenderSendData
    \/ HostResponse
    \/ DispatchResponse

SpecSignalExec == Init /\ [][NextSignalExec]_vars

\* Inbound StreamData signals with plain and per-stream handlers registered
\* in any order, before and while signals arrive.
NextSignal ==
    \/ RegisterSignalHandler(FALSE)
    \/ \E stream_id \in StreamIds : RegisterStreamSignalHandler(stream_id)
    \/ host.sent < MaxSignals /\ HostStreamData({"StreamRawData"})
    \/ DispatchStreamData

SpecSignal == Init /\ [][NextSignal]_vars

\* One thread in exec_request while the agent is shut down by a Terminate
\* signal or by stop().
NextShutdown ==
    \/ ExecReadId("c1")
    \/ ExecLoadId("c1")
    \/ ExecStoreId("c1")
    \/ ExecInsert("c1")
    \/ ExecPut("c1")
    \/ ExecWait("c1")
    \/ ExecWake("c1")
    \/ HostResponse
    \/ HostTerminate
    \/ DispatchResponse
    \/ DispatchTerminate
    \/ Stop
    \/ \E t \in StopThreads : StopWorkerBreak(t)
    \/ \E t \in StopThreads : StopWorkerFire(t)
    \/ \E t \in StopThreads : StopWorkerExit(t)
    \/ SenderSendData
    \/ SenderStop
    \/ SenderDrain
    \/ SenderTerminator
    \/ RecvStop

SpecShutdown == Init /\ [][NextShutdown]_vars

\* Threads in exec_request while the host closes the connection, under fair
\* scheduling: every thread of the agent that can take a step eventually
\* takes it.  The host and the application (the call of exec_request) are not
\* obliged to act.
NextClosed ==
    \/ \E c \in Callers : ExecReadId(c)
    \/ \E c \in Callers : ExecLoadId(c)
    \/ \E c \in Callers : ExecStoreId(c)
    \/ \E c \in Callers : ExecInsert(c)
    \/ \E c \in Callers : ExecPut(c)
    \/ \E c \in Callers : ExecWait(c)
    \/ \E c \in Callers : ExecWake(c)
    \/ SenderSendData
    \/ HostResponse
    \/ HostClose
    \/ DispatchResponse
    \/ RecvClosed

SpecClosedFair ==
    /\ Init
    /\ [][NextClosed]_vars
    /\ \A c \in Callers :
          /\ WF_vars(ExecLoadId(c))
          /\ WF_vars(ExecStoreId(c))
          /\ WF_vars(ExecInsert(c))
          /\ WF_vars(ExecPut(c))
          /\ WF_vars(ExecWait(c))
          /\ WF_vars(ExecWake(c))
    /\ WF_vars(SenderSendData)
    /\ WF_vars(DispatchResponse)
    /\ WF_vars(RecvClosed)

\* Inbound ToolInvoke and Custom requests while one thread is in exec_request.
ToolRequests == {ToolInvocationRequest(42), ToolInvocationRequest(43),
                 CustomRequest("echo", "NormalRequestInfo")}

NextTool ==
    \/ HostRequest(ToolRequests)
    \/ DispatchToolInvoke
    \/ DispatchCustom
    \/ DispatchResponse
    \/ \E r \in RequestIds : ToolReturn(r)
    \/ \E r \in RequestIds : ToolRaise(r)
    \/ \E r \in RequestIds : WorkerIncrement(r)
    \/ \E r \in RequestIds : HandlerReturn(r)
    \/ \E r \in RequestIds : HandlerRaise(r)
    \/ \E r \in RequestIds : WorkerDecrement(r)
    \/ ExecReadId("c1")
    \/ ExecLoadId("c1")
    \/ ExecStoreId("c1")
    \/ ExecInsert("c1")
    \/ ExecPut("c1")
    \/ ExecWait("c1")
    \/ ExecWake("c1")
    \/ HostResponse
    \/ SenderSendData

SpecTool == Init /\ [][NextTool]_vars

\* Two application threads sending stream events at the same time.
NextStreamConc ==
    \/ \E t \in Streamers : SendOperationEvent(t)
    \/ \E t \in Streamers : SendNotificationEvent(t)
    \/ \E t \in Streamers : SendRawdataEvent(t)
    \/ \E t \in Streamers : SendEventPut(t)
    \/ SenderSendData

SpecStreamConc == Init /\ [][NextStreamConc]_vars

\* Inbound Custom requests of both request-info variants for handlers of every
\* flag combination registered.
VariantRequests ==
    {CustomRequest(m, i) : m \in {"echo", "live", "feed"},
                           i \in {"NormalRequestInfo", "StreamRequestInfo"}}

NextVariant ==
    \/ HostRequest(VariantRequests)
    \/ DispatchCustom
    \/ \E r \in RequestIds : WorkerIncrement(r)
    \/ \E r \in RequestIds : HandlerReturn(r)
    \/ \E r \in RequestIds : HandlerRaise(r)
    \/ \E r \in RequestIds : WorkerDecrement(r)
    \/ SenderSendData

SpecVariant == Init /\ [][NextVariant]_vars

\* ================================================================ claims
\* The sequence ids of the StreamData signals enqueued on stream s, in order.
RECURSIVE SeqIdsIn(_, _)
SeqIdsIn(frames, s) ==
    IF frames = <<>> THEN <<>>
    ELSE IF Head(frames).type = "Signal" /\ Head(frames).stream_id = s
         THEN <<Head(frames).sequence_id>> \o SeqIdsIn(Tail(frames), s)
         ELSE SeqIdsIn(Tail(frames), s)

\* C1: on every stream id, the k-th StreamData signal sent (operation,
\* notification and raw events counted together, sent one after another)
\* carries sequence_id k-1: 0, 1, 2, ... with no gap and no repeat.
C1_SequenceIdsContiguous ==
    \A s \in StreamIds :
       \A k \in 1..Len(SeqIdsIn(enqueued, s)) : SeqIdsIn(enqueued, s)[k] = k - 1

\* C2: the number of Custom-request handlers executing at the same time
\* never exceeds MAX_INFLIGHT_REQUESTS.
C2_InflightCap ==
    Cardinality({r \in RequestIds : workers[r].pc = "running"}) <= MAX_INFLIGHT_REQUESTS

\* The callers whose completion callback has been invoked, one entry per call.
CallbackCount(c) == Cardinality({i \in 1..Len(cb_log) : cb_log[i].caller = c})

\* C3: the completion callback of an outbound request is invoked at most once,
\* only with a Response whose id is the id assigned to the request, in every
\* arrival order of the responses, and the entry of that id is gone from the
\* pending table when the callback has fired.
C3_CallbackOncePairedById ==
    /\ [](\A i \in 1..Len(cb_log) :
             /\ cb_log[i].resp.id = callers[cb_log[i].caller].new_id
             /\ CallbackCount(cb_log[i].caller) <= 1)
    /\ [][Len(cb_log') > Len(cb_log) =>
             cb_log'[Len(cb_log')].resp.id \notin DOMAIN pending_requests']_vars

\* Both callbacks have fired although the host answered the later request first.
C3_Witness ==
    /\ Len(cb_log) = 2
    /\ cb_log[1].resp.id > cb_log[2].resp.id
    /\ pending_requests = <<>>

\* The bytes of the frames fs, one after another as the sender writes them.
RECURSIVE Framed(_)
Framed(fs) ==
    IF fs = <<>> THEN <<>>
    ELSE LE8(Len(Output(Head(fs)))) \o Output(Head(fs)) \o Framed(Tail(fs))

\* The number of zero-length frames a reader finds in the byte stream b.
TerminatorCount(b) ==
    Cardinality({i \in 1..Len(ReadFrames(b)) : ReadFrames(b)[i] = <<>>})

\* C4: after Terminate the sender writes every frame that is queued when the
\* stop-event fires, then exactly one zero-length frame, then exits; nothing
\* is written after the terminator.
C4_ShutdownSafety ==
    /\ [](send_pc # "exited" => TerminatorCount(sock) = 0)
    /\ [](send_pc = "exited" =>
             /\ Len(written) >= at_stop.enq
             /\ SubSeq(written, 1, at_stop.enq) = SubSeq(enqueued, 1, at_stop.enq)
             /\ TerminatorCount(sock) = 1
             /\ ReadFrames(sock)[Len(ReadFrames(sock))] = <<>>)
    /\ [][send_pc = "exited" => sock' = sock]_vars

\* The sender has exited after a Terminate, and frames were still queued
\* when the stop-event fired.
C4_Witness ==
    /\ send_pc = "exited"
    /\ main_pc = "returned"
    /\ at_stop.enq > at_stop.wr
    /\ exited

\* C5 as stated: the frames written are exactly the frames enqueued, in
\* order, each once, followed by one zero-length frame.
C5_WrittenIsAllEnqueued ==
    send_pc = "exited" => sock = Framed(enqueued) \o LE8(0)

\* C5 amended: the byte stream is the framing (8-byte little-endian length,
\* then the bytes) of a prefix of the enqueued frames, in enqueue order, each
\* once; when the sender has exited that prefix holds every frame enqueued
\* before the stop-event fired and is followed by one zero-length frame.
C5_WrittenIsPrefixOfEnqueued ==
    /\ Len(written) <= Len(enqueued)
    /\ written = SubSeq(enqueued, 1, Len(written))
    /\ sock = Framed(written) \o (IF send_pc = "exited" THEN LE8(0) ELSE <<>>)
    /\ ReadFrames(sock) = [i \in 1..Len(written) |-> Output(written[i])]
                             \o (IF send_pc = "exited" THEN <<<<>>>> ELSE <<>>)
    /\ send_pc = "exited" => Len(written) >= at_stop.enq

\* The sender has exited after writing two frames of different kinds, one of
\* them from the drain loop, and a later frame was enqueued too late.
C5_Witness ==
    /\ send_pc = "exited"
    /\ Len(written) >= 2
    /\ written[1].dtype # written[2].dtype
    /\ at_stop.enq > at_stop.wr
    /\ Len(enqueued) > Len(written)

\* The Response frames enqueued by the handling of inbound request r.
RECURSIVE ResponsesFor(_, _)
ResponsesFor(frames, r) ==
    IF frames = <<>> THEN <<>>
    ELSE IF Head(frames).type = "Response" /\ Head(frames).for = r
         THEN <<Head(frames)>> \o ResponsesFor(Tail(frames), r)
         ELSE ResponsesFor(Tail(frames), r)

\* The handle_worker threads between their increment and their decrement.
ActiveWorkers == {r \in RequestIds : workers[r].pc \in {"running", "responded"}}

\* C6: a Custom handler that raises yields exactly one Response, with code
\* -32603 and the request's id; the inflight counter is back to its earlier
\* value once the worker has ended (it counts exactly the workers between
\* increment and decrement); the dispatcher is not affected by the raise.
C6_HandlerIsolation ==
    /\ [](\A r \in RequestIds :
             workers[r].outcome = "raised" =>
                /\ Len(ResponsesFor(enqueued, r)) = 1
                /\ ResponsesFor(enqueued, r)[1].id = r
                /\ ResponsesFor(enqueued, r)[1].code = CODE_INTERNAL)
    /\ [](inflight_requests_count = Cardinality(ActiveWorkers))
    /\ [][\A r \in RequestIds :
             (workers[r].outcome # "raised" /\ workers'[r].outcome = "raised") =>
                (main_pc' = main_pc /\ recv_queue' = recv_queue /\ handled' = handled)]_vars

\* A handler raised and its worker ended, the counter is back at 0, and the
\* dispatcher answered a later request after the -32603 response was enqueued.
C6_Witness ==
    /\ workers[1].outcome = "raised"
    /\ workers[1].pc = "done"
    /\ inflight_requests_count = 0
    /\ Len(enqueued) = 2
    /\ enqueued[1].for = 1
    /\ enqueued[2].for = 2
    /\ main_pc = "loop"

\* The ids of the Custom requests the dispatcher has taken.
CustomHandled ==
    {handled[i].id : i \in {j \in 1..Len(handled) :
                               handled[j].type = "Request" /\ handled[j].method = "Custom"}}

\* C7: every inbound Custom request gets exactly one Response, carrying its id:
\* code 0 from a handler that returned, -32603 from one that raised, -32601
\* or -32000 from the dispatcher; never none once the handler has finished or
\* the request was refused, and never two.
C7_ExactlyOneResponse ==
    \A r \in CustomHandled :
       LET fs == ResponsesFor(enqueued, r) IN
       /\ Len(fs) <= 1
       /\ \A i \in 1..Len(fs) :
             /\ fs[i].id = r
             /\ fs[i].code \in {CODE_OK, CODE_NOT_FOUND, CODE_TOO_MANY, CODE_INTERNAL}
             /\ workers[r].pc = "none" <=> fs[i].code \in {CODE_NOT_FOUND, CODE_TOO_MANY}
             /\ workers[r].outcome = "returned" <=> fs[i].code = CODE_OK
             /\ workers[r].outcome = "raised" <=> fs[i].code = CODE_INTERNAL
       /\ workers[r].pc \in {"none", "responded", "done"} => Len(fs) = 1
       /\ workers[r].pc \in {"spawned", "running"} => Len(fs) = 0

\* Of three Custom requests one was answered by a handler that returned and
\* one was refused by the dispatcher with -32000.
C7_Witness ==
    /\ \E r \in CustomHandled :
          workers[r].pc = "done" /\ workers[r].outcome = "returned"
    /\ \E i \in 1..Len(enqueued) : enqueued[i].code = CODE_TOO_MANY
    /\ Cardinality(CustomHandled) = 3

\* C8: once the Response of its request has been dispatched (the callback has
\* run), a thread in exec_request is not left blocked in cond.wait().
C8_ExecRequestUnblocks ==
    \A c \in Callers : CallbackCount(c) > 0 => callers[c].pc # "waiting"

\* C9: a ToolInvoke request whose tool function has ended has exactly one
\* Response, and it carries the id of that ToolInvoke request.
C9_ToolResponseCarriesOwnId ==
    \A r \in RequestIds :
       tool_workers[r].pc = "done" =>
          /\ Len(ResponsesFor(enqueued, r)) = 1
          /\ ResponsesFor(enqueued, r)[1].id = r
          /\ ResponsesFor(enqueued, r)[1].code \in {CODE_OK, CODE_INTERNAL}

\* C10: when the terminator has been written after a Terminate, the response
\* of every Custom request that was dispatched to a handler is already written.
C10_ResponsesBeforeTerminator ==
    (send_pc = "exited" /\ main_pc = "returned") =>
       \A r \in RequestIds :
          workers[r].pc # "none" => \E i \in 1..Len(written) : written[i].for = r

\* C11: with several threads sending on the same stream at the same time, the
\* StreamData signals enter the send queue in sequence_id order: no signal of
\* stream s is enqueued before a signal of s with a smaller sequence_id.
C11_EnqueuedInSequenceOrder ==
    \A s \in StreamIds :
       \A i, j \in 1..Len(SeqIdsIn(enqueued, s)) :
          i < j => SeqIdsIn(enqueued, s)[i] <= SeqIdsIn(enqueued, s)[j]

\* C12: a Custom request with NormalRequestInfo for a registered non-streaming
\* method that the dispatcher takes while exactly MAX_INFLIGHT_REQUESTS handlers
\* are in flight is answered with code -32000 "Too many requests" and no
\* handler thread is started for it.
C12_RefusedAtCap ==
    [][(/\ recv_queue # <<>>
        /\ handled' = Append(handled, Head(recv_queue))
        /\ Head(recv_queue).type = "Request"
        /\ Head(recv_queue).method = "Custom"
        /\ Head(recv_queue).method_str \in DOMAIN handlers
        /\ ~handlers[Head(recv_queue).method_str].in_stream
        /\ ~handlers[Head(recv_queue).method_str].out_stream
        /\ Head(recv_queue).info = "NormalRequestInfo"
        /\ Cardinality(ActiveWorkers) = MAX_INFLIGHT_REQUESTS
        /\ inflight_requests_count = MAX_INFLIGHT_REQUESTS)
       => (/\ workers' = workers
           /\ enqueued' = Append(enqueued,
                 ErrorFrame(Head(recv_queue).id, CODE_TOO_MANY, "Too many requests",
                            Head(recv_queue).id)))]_vars

\* The positions in handled of the Custom requests naming an unregistered method.
UnknownMethodTaken ==
    {i \in 1..Len(handled) : /\ handled[i].type = "Request"
                             /\ handled[i].method = "Custom"
                             /\ handled[i].method_str \notin DOMAIN handlers}

\* C13: a Custom request whose method_str is not registered is answered with
\* exactly one Response carrying its id, code -32601 and message "Method not
\* found"; no handler thread is started for it, the inflight counter is not
\* changed, and the dispatcher stays in its loop for the next envelope.
C13_MethodNotFound ==
    /\ [](\A i \in UnknownMethodTaken :
             /\ Len(ResponsesFor(enqueued, handled[i].id)) = 1
             /\ ResponsesFor(enqueued, handled[i].id)[1].id = handled[i].id
             /\ ResponsesFor(enqueued, handled[i].id)[1].code = CODE_NOT_FOUND
             /\ ResponsesFor(enqueued, handled[i].id)[1].message = "Method not found"
             /\ workers[handled[i].id].pc = "none")
    /\ [][(/\ recv_queue # <<>>
           /\ handled' = Append(handled, Head(recv_queue))
           /\ Head(recv_queue).type = "Request"
           /\ Head(recv_queue).method = "Custom"
           /\ Head(recv_queue).method_str \notin DOMAIN handlers)
          => (/\ inflight_requests_count' = inflight_requests_count
              /\ workers' = workers
              /\ main_pc' = "loop"
              /\ Len(enqueued') = Len(enqueued) + 1)]_vars

\* A request for an unregistered method was refused while a handler was in
\* flight, and the dispatcher has taken a later envelope after it.
C13_Witness ==
    /\ Len(handled) = 3
    /\ 2 \in UnknownMethodTaken
    /\ workers[handled[1].id].pc = "running"
    /\ inflight_requests_count = 1
    /\ \E i \in 1..Len(enqueued) :
          enqueued[i].id = handled[2].id /\ enqueued[i].message = "Method not found"

\* The positions in handled of the Custom requests whose request-info variant
\* does not fit the flags of the registered handler, as the claim lists them.
VariantMismatchTaken ==
    {i \in 1..Len(handled) :
        /\ handled[i].type = "Request"
        /\ handled[i].method = "Custom"
        /\ handled[i].method_str \in DOMAIN handlers
        /\ LET h == handlers[handled[i].method_str] IN
           \/ handled[i].info = "NormalRequestInfo" /\ (h.in_stream \/ h.out_stream)
           \/ handled[i].info # "NormalRequestInfo" /\ ~h.in_stream /\ ~h.out_stream}

\* C14: a NormalRequestInfo request for a handler flagged in_stream or
\* out_stream, and a non-Normal request for a handler with neither flag, is
\* answered with code -32601 "invalid request type"; no handler thread is
\* started for it and the inflight counter is not changed by its dispatch.
C14_VariantMismatch ==
    /\ [](\A i \in VariantMismatchTaken :
             /\ Len(ResponsesFor(enqueued, handled[i].id)) = 1
             /\ ResponsesFor(enqueued, handled[i].id)[1].id = handled[i].id
             /\ ResponsesFor(enqueued, handled[i].id)[1].code = CODE_NOT_FOUND
             /\ ResponsesFor(enqueued, handled[i].id)[1].message = "invalid request type"
             /\ workers[handled[i].id].pc = "none")
    /\ [][(Len(handled') > Len(handled) /\ Len(handled') \in VariantMismatchTaken')
          => (inflight_requests_count' = inflight_requests_count /\ workers' = workers)]_vars

\* The three mismatches have been refused: NormalRequestInfo for the in_stream
\* handler and for the out_stream handler, StreamRequestInfo for the plain one.
C14_Witness ==
    /\ VariantMismatchTaken = {1, 2, 3}
    /\ {handled[i].method_str : i \in 1..3} = {"echo", "live", "feed"}
    /\ Len(enqueued) = 3

\* The positions in handled of the ToolInvoke requests naming an unregistered tool.
UnknownToolTaken ==
    {i \in 1..Len(handled) : /\ handled[i].type = "Request"
                             /\ handled[i].method = "ToolInvoke"
                             /\ handled[i].tool_id \notin DOMAIN internal_tools}

\* C15: a ToolInvoke request naming a tool_id that is not registered is
\* answered with a Response of code -32603 carrying the request's id, and the
\* dispatcher stays in its loop to process the envelopes that follow.
C15_UnknownToolAnswered ==
    \A i \in UnknownToolTaken :
       /\ main_pc = "loop"
       /\ Len(ResponsesFor(enqueued, handled[i].id)) = 1
       /\ ResponsesFor(enqueued, handled[i].id)[1].id = handled[i].id
       /\ ResponsesFor(enqueued, handled[i].id)[1].code = CODE_INTERNAL

\* C16: an inbound Response whose id has no entry in the pending table invokes
\* no callback and leaves the pending table as it is, and the dispatcher stays
\* in its loop for the next envelope.
C16_UnknownResponseIgnored ==
    [][(/\ recv_queue # <<>>
        /\ handled' = Append(handled, Head(recv_queue))
        /\ Head(recv_queue).type = "Response"
        /\ Head(recv_queue).id \notin DOMAIN pending_requests)
       => (/\ cb_log' = cb_log
           /\ callers' = callers
           /\ pending_requests' = pending_requests
           /\ main_pc' = "loop")]_vars

\* The dispatcher took a Response with an id that was never assigned while a
\* request was pending, and afterwards paired the answer of that request.
C16_Witness ==
    /\ Len(handled) >= 2
    /\ handled[1].id = 7
    /\ Len(cb_log) = 1
    /\ cb_log[1].resp = handled[Len(handled)]
    /\ main_pc = "loop"

\* The Response the dispatcher paired with the request of caller c.
PairedResponse(c) == cb_log[CHOOSE i \in 1..Len(cb_log) : cb_log[i].caller = c].resp

C18_PendingReleasedAtExit ==
    exited =>
       /\ pending_requests = <<>>
       /\ \A c \in Callers : callers[c].pc # "waiting"

\* C19: once the receiver has found the socket closed, every pending outbound
\* request is eventually completed (the pending table becomes empty) and no
\* thread stays blocked in exec_request.
C19_ClosedSocketReleases ==
    (host.conn = "eof") ~>
       (/\ pending_requests = <<>>
        /\ \A c \in Callers : callers[c].pc # "waiting")

\* C20: after a Terminate signal has been dispatched or stop() has been
\* called, with every running handler eventually returning, the process
\* eventually exits; when it exits the stop-event has fired, the sender has
\* written the zero-length terminator and returned, and the receiver has
\* returned.
C20_ShutdownCompletes ==
    /\ (main_pc = "returned" \/ stop_pc["user"] # "none") ~> exited
    /\ [](exited =>
             /\ stop_event > 0
             /\ send_pc = "exited"
             /\ TerminatorCount(sock) = 1
             /\ recv_pc = "exited")

\* The process has exited through the drainer started by stop(), after a
\* Terminate was dispatched too and after a handler ran to its end.
C20_Witness ==
    /\ exited
    /\ stop_pc["user"] = "exited"
    /\ main_pc = "returned"
    /\ \E r \in RequestIds : workers[r].pc = "done"

\* The entries of the handler list registered for stream s only, and the
\* entries registered for every stream.
PerStreamHandlers(s) ==
    {i \in 1..Len(sig_handlers) :
        sig_handlers[i].kind = "stream" /\ sig_handlers[i].stream_id = s}

\* C21: an inbound StreamData signal for stream s is delivered to the
\* per-stream handler registered for s when there is one, and then to no
\* generic handler; with no per-stream handler for s it is delivered to every
\* generic handler, in registration order.
C21_StreamDeliveryPolicy ==
    [][(/\ recv_queue # <<>>
        /\ handled' = Append(handled, Head(recv_queue))
        /\ Head(recv_queue).type = "Signal"
        /\ Head(recv_queue).method = "StreamData")
       => LET s == Head(recv_queue).stream_id
              new == SubSeq(delivered', Len(delivered) + 1, Len(delivered'))
              called == {new[i].handler : i \in 1..Len(new)}
          IN
          /\ \A i, j \in 1..Len(new) : i < j => new[i].handler < new[j].handler
          /\ called = IF PerStreamHandlers(s) # {}
                      THEN PerStreamHandlers(s)
                      ELSE {i \in 1..Len(sig_handlers) :
                               sig_handlers[i].kind = "generic"}]_vars

\* The reply that exec_request returned to the stream-control call of c is
\* the right one: it echoes the request id, and it carries a stream id > 0
\* for "New", the id of the stream to close for "Close".
CorrectlyAcknowledged(c) ==
    /\ callers[c].pc = "returned"
    /\ callers[c].result.request_id = stream_calls[c].req_id
    /\ IF stream_calls[c].op = "New"
       THEN callers[c].result.stream_id > 0
       ELSE callers[c].result.stream_id = stream_calls[c].stream_id

\* The step on which the stream-control call of c ends.
StreamCallEnds(c) == stream_calls[c].pc = "in_exec" /\ stream_calls'[c].pc = "done"

\* C22: when create_stream was acknowledged correctly with stream id s and a
\* following close_stream(s) is acknowledged correctly, then at the end of
\* close_stream neither the sequence counters nor the per-stream handlers
\* have an entry for s (s had no counter when create_stream ended; events may
\* have been sent on s in between).
C22_CloseLeavesNoEntry ==
    [][(/\ StreamCallEnds("c2")
        /\ stream_calls["c2"].op = "Close"
        /\ stream_calls["c1"].pc = "done"
        /\ stream_calls["c1"].op = "New"
        /\ CorrectlyAcknowledged("c1")
        /\ CorrectlyAcknowledged("c2")
        /\ stream_calls["c2"].stream_id = callers["c1"].result.stream_id
        /\ callers["c1"].result.stream_id \notin DOMAIN stream_calls["c1"].seq_at_end)
       => /\ stream_calls["c2"].stream_id \notin DOMAIN stream_sequence_ids'
          /\ {i \in 1..Len(sig_handlers') :
                 /\ sig_handlers'[i].kind = "stream"
                 /\ sig_handlers'[i].stream_id = stream_calls["c2"].stream_id} = {}]_vars

\* The reply to the stream-control call of c is one the call must refuse.
WrongReply(c) ==
    /\ callers[c].pc = "returned"
    /\ ~CorrectlyAcknowledged(c)

\* C23: a create_stream or close_stream whose reply carries another request
\* id, a stream id <= 0 (create) or another stream id (close) raises
\* ValueError; no step of the call changes the StreamData handlers or the
\* sequence counters, and the dispatcher and the I/O threads stay in their
\* loops.
C23_FailedCallChangesNothing ==
    [][/\ \A c \in Callers :
             (StreamCallEnds(c) /\ WrongReply(c))
                => /\ stream_calls'[c].outcome = "ValueError"
                   /\ sig_handlers' = sig_handlers
                   /\ stream_sequence_ids' = stream_sequence_ids
                   /\ main_pc' = "loop" /\ send_pc' = "select" /\ recv_pc' = "select"
                   /\ ~exited'
       /\ (stream_calls' # stream_calls \/ callers' # callers)
             => /\ sig_handlers' = sig_handlers
                /\ stream_sequence_ids' = stream_sequence_ids]_vars

\* A create_stream refused for its reply, and after it a close_stream refused
\* for its reply: the second call got its response through the runtime.
C23_Witness ==
    /\ stream_calls["c1"].outcome = "ValueError"
    /\ stream_calls["c2"].outcome = "ValueError"
    /\ main_pc = "loop"

\* C24: when a create_stream that was acknowledged correctly with stream id s
\* ends, the next outbound event on s will carry sequence_id 0, whatever was
\* sent on s before.
C24_CounterAtZeroAfterCreate ==
    [][(/\ StreamCallEnds("c1")
        /\ stream_calls["c1"].op = "New"
        /\ CorrectlyAcknowledged("c1"))
       => SeqIdOf(stream_sequence_ids', callers["c1"].result.stream_id) = 0]_vars

\* C25: register_handler for a name that is registered raises ValueError and
\* leaves the registry as it was: the function and the in_stream/out_stream
\* flags registered first stay.
C25_DuplicateRegistrationRefused ==
    [][\A m \in DOMAIN handlers :
          (app'.regs = app.regs + 1 /\ app'.reg.op = "register_handler" /\ app'.reg.name = m)
             => /\ app'.reg.outcome = "ValueError"
                /\ handlers' = handlers]_vars

\* A register_handler for "echo", registered at start-up, was refused.
C25_Witness ==
    /\ app.reg = [op |-> "register_handler", name |-> "echo", outcome |-> "ValueError"]
    /\ "echo" \in DOMAIN handlers
    /\ handlers["echo"] = [handler |-> "f1", in_stream |-> FALSE, out_stream |-> FALSE]

\* C26: unregister_handler for a name that is not registered completes
\* without error and leaves the registry unchanged.
C26_UnregisterIdempotent ==
    [][\A m \in RegistryMethods \ DOMAIN handlers :
          (app'.regs = app.regs + 1 /\ app'.reg.op = "unregister_handler"
             /\ app'.reg.name = m)
             => /\ app'.reg.outcome = "returned"
                /\ handlers' = handlers]_vars

\* C27: set_internal_tool for a tool id that is in the registry is rejected:
\* the function registered for the id stays, and it is the one a later
\* ToolInvoke of the id runs (the host invokes tool 42, registered at
\* start-up with the function tool_a).
C27_DuplicateToolRejected ==
    [][/\ \A tid \in DOMAIN internal_tools :
             tid \in DOMAIN internal_tools' /\ internal_tools'[tid] = internal_tools[tid]
       /\ \A r \in RequestIds :
             (tool_workers[r].pc = "none" /\ tool_workers'[r].pc = "running")
                => tool_workers'[r].handler = "tool_a"]_vars

\* The threads that have been assigned a request id by _put_rpc_request.
Assigned == {c \in Callers : callers[c].pc # "idle"}

\* C28: the ids assigned to outbound requests are pairwise different, and
\* they are the values 0, 1, 2, ... of the counter: n requests hold the ids
\* 0 .. n-1.
C28_RequestIdsUnique ==
    /\ \A c, d \in Assigned : c # d => callers[c].new_id # callers[d].new_id
    /\ {callers[c].new_id : c \in Assigned} = 0..(Cardinality(Assigned) - 1)

\* The host has replied to the request that the StreamData handler made: the
\* response is on _recv_queue.
HostRepliedToHandler ==
    \E i \in 1..Len(recv_queue) :
       /\ recv_queue[i].type = "Response"
       /\ recv_queue[i].id = callers["c1"].new_id

\* C29: the dispatcher does not run or wait on user code: it is never inside
\* a StreamData handler that waits in exec_request while the host's reply to
\* that request waits on _recv_queue for the dispatcher.
C29_DispatcherNotBlockedByHandler ==
    ~(/\ main_pc = "in_handler"
      /\ callers["c1"].pc = "waiting"
      /\ HostRepliedToHandler)

\* C30: while a tool function that was running when Terminate was processed
\* has not yet enqueued its response, the stop-event has not been fired and
\* the zero-length terminator has not been written.
C30_StopWaitsForToolWorkers ==
    \A r \in RequestIds :
       tool_workers[r].pc = "running" => stop_event = 0 /\ send_pc # "exited"

\* The dispatcher has processed a Terminate signal.
TerminateProcessed ==
    \E i \in 1..Len(handled) : handled[i].type = "Signal" /\ handled[i].method = "Terminate"

\* C31: once the dispatcher has processed a Terminate signal it takes no
\* further envelope, and no handler thread, tool thread, response callback or
\* StreamData handler is started.
C31_NoNewWorkAfterTerminate ==
    [][TerminateProcessed
       => /\ handled' = handled
          /\ cb_log' = cb_log
          /\ delivered' = delivered
          /\ \A r \in RequestIds :
                /\ workers[r].pc = "none" => workers'[r].pc = "none"
                /\ tool_workers[r].pc = "none" => tool_workers'[r].pc = "none"]_vars

\* The process has exited after a Terminate, and an envelope received after
\* the Terminate is still on _recv_queue.
C31_Witness ==
    /\ TerminateProcessed
    /\ exited
    /\ recv_queue # <<>>

\* s is a prefix of t.
IsPrefix(s, t) == Len(s) <= Len(t) /\ SubSeq(t, 1, Len(s)) = s

\* C32: the envelopes taken by the dispatcher followed by those waiting on
\* _recv_queue are the frames received, in the order received: a step only
\* adds at the end, and the dispatcher takes the oldest.  When a StreamData
\* signal is taken, each handler it is routed to is invoked for it once, in
\* registration order, whatever its sequence_id and final are and whatever
\* was delivered before; no other step invokes a handler.
C32_InOrderExactlyOnce ==
    [][/\ IsPrefix(handled \o recv_queue, handled' \o recv_queue')
       /\ handled' # handled => handled' = Append(handled, Head(recv_queue))
       /\ LET new == SubSeq(delivered', Len(delivered) + 1, Len(delivered'))
          IN
          /\ IsPrefix(delivered, delivered')
          /\ IF handled' # handled /\ Head(recv_queue).type = "Signal"
                /\ Head(recv_queue).method = "StreamData"
             THEN LET routed == {i \in 1..Len(sig_handlers) :
                                    ReachesUser(sig_handlers[i], Head(recv_queue))}
                  IN
                  /\ Len(new) = Cardinality(routed)
                  /\ {new[k].handler : k \in 1..Len(new)} = routed
                  /\ \A k \in 1..Len(new) : new[k].env = Len(handled')
                  /\ \A k, l \in 1..Len(new) : k < l => new[k].handler < new[l].handler
             ELSE new = <<>>]_vars

\* Handler 1 was invoked for the first and for the second event although the
\* first event had final = true and the second repeats or lowers its
\* sequence id.
C32_Witness ==
    /\ Len(handled) >= 2
    /\ handled[1].final
    /\ handled[2].sequence_id <= handled[1].sequence_id
    /\ \E i, j \in 1..Len(delivered) :
          /\ i < j
          /\ delivered[i] = [handler |-> 1, env |-> 1]
          /\ delivered[j] = [handler |-> 1, env |-> 2]

C34_InvalidEnvelopeCloses ==
    (main_pc = "raised") ~> (send_pc = "exited" /\ recv_pc = "exited" /\ exited)

\* C35: the send queue never holds more than its capacity; while it is full
\* no publisher's frame is enqueued; a publisher that gets past its put has
\* appended its own frame to the queue; and only the head leaves the queue.
C35_SendQueueBounded ==
    [][/\ Len(send_queue) <= SEND_QUEUE_SIZE /\ Len(send_queue') <= SEND_QUEUE_SIZE
       /\ Len(send_queue) = SEND_QUEUE_SIZE => enqueued' = enqueued
       /\ \A c \in Callers :
             (callers[c].pc = "inserted" /\ callers'[c].pc = "put")
                => /\ send_queue' = Append(send_queue, RequestFrame(callers[c].new_id))
                   /\ enqueued' = Append(enqueued, RequestFrame(callers[c].new_id))
       /\ \A t \in Streamers :
             (streamers[t].pc = "built" /\ streamers'[t].pc = "idle")
                => /\ send_queue' = Append(send_queue, streamers[t].frame)
                   /\ enqueued' = Append(enqueued, streamers[t].frame)
       /\ \/ send_queue' = send_queue
          \/ send_queue # <<>> /\ send_queue' = Tail(send_queue)
          \/ /\ Len(enqueued') = Len(enqueued) + 1
             /\ send_queue' = Append(send_queue, enqueued'[Len(enqueued')])]_vars

\* The queue is full and two publishers are at their put: the event of t1 is
\* built and the request of c1 is in the pending table, neither is enqueued.
C35_Witness ==
    /\ Len(send_queue) = SEND_QUEUE_SIZE
    /\ streamers["t1"].pc = "built"
    /\ callers["c1"].pc = "inserted"

\* C36: a call of HostAgent() on the existing instance leaves the state
\* intact: the method, tool and signal-handler registries, both queues, the
\* pending table, the request-id counter, the inflight counter and the
\* sequence counters are what they were.
C36_SingletonStateIntact ==
    [][(app'.regs = app.regs + 1 /\ app'.reg.op = "HostAgent")
       => /\ handlers' = handlers
          /\ internal_tools' = internal_tools
          /\ sig_handlers' = sig_handlers
          /\ send_queue' = send_queue
          /\ recv_queue' = recv_queue
          /\ pending_requests' = pending_requests
          /\ global_id' = global_id
          /\ inflight_requests_count' = inflight_requests_count
          /\ stream_sequence_ids' = stream_sequence_ids]_vars

\* C37: when the dispatcher takes the Response to a request that was written
\* to the socket, the pending table holds an entry for its id.
C37_ResponseFindsPendingEntry ==
    [][(/\ recv_queue # <<>>
        /\ handled' = Append(handled, Head(recv_queue))
        /\ Head(recv_queue).type = "Response"
        /\ \E i \in host.answered : written[i].id = Head(recv_queue).id)
       => Head(recv_queue).id \in DOMAIN pending_requests]_vars

\* The handler workers that have executed their increment.
Incremented == {r \in RequestIds : workers[r].pc \in {"running", "responded", "done"}}

\* C38: when the drainer reads the inflight counter as 0, every handler
\* worker that has incremented it has its response (result or -32603 error)
\* enqueued; and when the sender writes the zero-length terminator, every
\* frame enqueued before the stop-event was fired has been written.
C38_ResponseQueuedBeforeDecrement ==
    [][/\ \A t \in StopThreads :
             (stop_pc[t] = "poll" /\ stop_pc'[t] = "fire")
                => \A r \in Incremented :
                      /\ workers[r].pc = "done"
                      /\ Len(ResponsesFor(enqueued, r)) = 1
       /\ (send_pc # "exited" /\ send_pc' = "exited")
             => /\ Len(written) >= at_stop.enq
                /\ SubSeq(written, 1, at_stop.enq) = SubSeq(enqueued, 1, at_stop.enq)]_vars

\* The terminator is written after a handler's response that was queued but
\* not yet written when the stop-event fired.
C38_Witness ==
    /\ send_pc = "exited"
    /\ Incremented # {}
    /\ at_stop.wr < at_stop.enq
    /\ \E r \in Incremented :
          \E i \in (at_stop.wr + 1)..at_stop.enq : written[i].for = r

\* C39: the inflight counter is never negative and is the number of handler
\* workers that have incremented it and not yet decremented it, so it is 0
\* when none is running, whether the handlers returned or raised.
C39_InflightCountsWorkers ==
    /\ inflight_requests_count >= 0
    /\ inflight_requests_count =
          Cardinality({r \in RequestIds : workers[r].pc \in {"running", "responded"}})

\* A handler that raised has finished, one that returned has finished, and
\* the counter is back at 0.
C39_Witness ==
    /\ inflight_requests_count = 0
    /\ \E r \in RequestIds : workers[r].pc = "done" /\ workers[r].outcome = "raised"
    /\ \E r \in RequestIds : workers[r].pc = "done" /\ workers[r].outcome = "returned"

\* C40: before the stop-event the unread bytes of the wake-up pipe never
\* exceed the frames of the send queue, so the queue get that follows the read
\* of one byte never finds the queue empty, and every frame enqueued before
\* the stop-event is eventually written.
C40_PipeNeverAheadOfQueue ==
    /\ [](stop_event = 0 =>
             /\ send_task_pipe <= Len(send_queue)
             /\ send_pc = "get" => send_queue # <<>>)
    /\ \A n \in 1..MaxEvents :
          (stop_event = 0 /\ Len(enqueued) >= n) ~> (Len(written) >= n)

\* Before the stop-event the sender has read a byte and not yet taken its
\* frame, while a publisher has queued a frame and not yet written its byte,
\* and a frame has already been written.
C40_Witness ==
    /\ stop_event = 0
    /\ send_pc = "get"
    /\ \E t \in Streamers : streamers[t].pc = "queued"
    /\ send_task_pipe < Len(send_queue)
    /\ Len(written) >= 1
====
